---- MODULE Spec2Model ----
(***************************************************************************)
(* Model of the bandwidth monitor's polling and aggregation engine         *)
(* (src/monitor/monitor.go, first revision in the file, lines 1-490).      *)
(*                                                                         *)
(* Time is in seconds.  The clock advances in steps of one Minute; every   *)
(* ticker period of the model is a multiple of it.                         *)
(***************************************************************************)
EXTENDS Integers, Sequences, FiniteSets, TLC

----------------------------------------------------------------------------
(* Durations (time package) and the literals of the deriver.               *)

Minute == 60
Hour == 3600
FiveMinuteSeconds == 300
HourSeconds == 3600
HistoryWindow == 5 * Minute
PeakLimit == 3

(* The trimmer's ticker period, time.NewTicker(time.Minute).               *)
CleanInterval == Minute

(* Bounds of the model, in clock steps of one minute: the length of a run  *)
(* with both servers, of a run with one server that follows the history    *)
(* past its limit, and of a run checked for progress.                      *)
MaxMinutes == 2
MaxSoloMinutes == 6
MaxLiveMinutes == 1

(* Bounds of the documents the deriver is exercised on: the length of a    *)
(* run, of the enumerated hour series, and of the series with more         *)
(* buckets than peak events.                                               *)
MaxDeriveMinutes == 1
MaxHourBuckets == 2
MaxPeakBuckets == 4
MaxLegacyMinutes == 1

----------------------------------------------------------------------------
(* Configuration: the servers config.GetServers() can return.              *)

ServerConfigs ==
    { [name |-> "A", ip |-> "10.0.0.1"],
      [name |-> "B", ip |-> "10.0.0.2"] }

Hosts == { s.name : s \in ServerConfigs }

(* A variant in which every poller goroutine sees the loop variable's last *)
(* value instead of its own server.                                        *)
ConfigOfLoopVariable(n) == CHOOSE s \in ServerConfigs : s.name = "B"

ConfigOf(n) == CHOOSE s \in ServerConfigs : s.name = n

----------------------------------------------------------------------------
(* Small helpers on sequences and sets.                                    *)

Max2(a, b) == IF a > b THEN a ELSE b

RECURSIVE SumSet(_, _)
SumSet(S, f) ==
    IF S = {} THEN 0
    ELSE LET x == CHOOSE y \in S : TRUE
         IN  f[x] + SumSet(S \ {x}, f)

(* All orders in which a finite set can be enumerated.                     *)
Orders(S) ==
    { s \in [1..Cardinality(S) -> S] : \A i, j \in 1..Cardinality(S) : i # j => s[i] # s[j] }

IsSuffix(s, t) ==
    /\ Len(s) <= Len(t)
    /\ \A i \in 1..Len(s) : s[i] = t[Len(t) - Len(s) + i]

----------------------------------------------------------------------------
(* ServerMetrics (monitor.go:74-94) and the deriver processVnStatData.     *)
(* A TrafficBucket is [timestamp, rx, tx]; an interface is                 *)
(* [updated, day, fiveminute, hour]; VnStatData is [interfaces].           *)
(* An error string is a sequence of tokens, the empty string is << >>.     *)

NoError == << >>

(* The Go zero value of ServerMetrics with Name, IP, Online and UpdatedAt  *)
(* set, as the composite literals at monitor.go:195 and :234 build it.     *)
NewServerMetrics(server, isOnline, t) ==
    [ name |-> server.name, ip |-> server.ip, online |-> isOnline,
      rx |-> 0, tx |-> 0, totalRx |-> 0, totalTx |-> 0,
      avgRx12h |-> 0, avgTx12h |-> 0, avgRx24h |-> 0, avgTx24h |-> 0,
      peakRx |-> 0, peakTx |-> 0, peakEvents |-> << >>,
      updatedAt |-> t, error |-> NoError ]

(* Variants that take the first, or the last, bucket of the input without  *)
(* sorting it.                                                             *)
LatestIndexesFirst(buckets) == { 1 }

LatestIndexesLast(buckets) == { Len(buckets) }

(* sort.Slice is not stable: after sorting by timestamp, the last (first)  *)
(* element is some bucket whose timestamp is maximal.                      *)
LatestIndexes(buckets) ==
    { i \in 1..Len(buckets) :
        \A j \in 1..Len(buckets) : buckets[j].timestamp <= buckets[i].timestamp }

(* The age test of the 24h window, monitor.go:293-297.                     *)
InWindow24(h, nowUTC) ==
    LET age == nowUTC - h.timestamp
    IN  age <= 24 * Hour /\ age >= 0

(* The nested 12h test, monitor.go:320.                                    *)
InWindow12(h, nowUTC) ==
    LET age == nowUTC - h.timestamp
    IN  InWindow24(h, nowUTC) /\ age <= 12 * Hour

(* The loop over iface.Traffic.Hour, monitor.go:291-326: the accumulators  *)
(* after the first n buckets.                                              *)
RECURSIVE HourLoop(_, _, _)
HourLoop(hourSeries, n, nowUTC) ==
    IF n = 0
    THEN [ sumRx12 |-> 0, sumTx12 |-> 0, sumRx24 |-> 0, sumTx24 |-> 0,
           count12 |-> 0, count24 |-> 0, peakRx |-> 0, peakTx |-> 0,
           hours |-> << >> ]
    ELSE LET acc == HourLoop(hourSeries, n - 1, nowUTC)
             h == hourSeries[n]
             rateRx == h.rx \div HourSeconds
             rateTx == h.tx \div HourSeconds
         IN  IF ~InWindow24(h, nowUTC) THEN acc
             ELSE [ sumRx24 |-> acc.sumRx24 + h.rx,
                    sumTx24 |-> acc.sumTx24 + h.tx,
                    count24 |-> acc.count24 + 1,
                    peakRx |-> IF rateRx > acc.peakRx THEN rateRx ELSE acc.peakRx,
                    peakTx |-> IF rateTx > acc.peakTx THEN rateTx ELSE acc.peakTx,
                    hours |-> Append(acc.hours,
                                     [ t |-> h.timestamp, rx |-> rateRx, tx |-> rateTx,
                                       total |-> rateRx + rateTx ]),
                    sumRx12 |-> IF InWindow12(h, nowUTC) THEN acc.sumRx12 + h.rx ELSE acc.sumRx12,
                    sumTx12 |-> IF InWindow12(h, nowUTC) THEN acc.sumTx12 + h.tx ELSE acc.sumTx12,
                    count12 |-> IF InWindow12(h, nowUTC) THEN acc.count12 + 1 ELSE acc.count12 ]

(* A variant that divides the sum by the number of buckets only.           *)
AveragePerBucket(sum, count) == IF count > 0 THEN sum \div count ELSE 0

(* The averages, monitor.go:328-335: bytes per second over `count` hours,  *)
(* zero when no bucket was counted.                                        *)
Average(sum, count) == IF count > 0 THEN sum \div (count * HourSeconds) ELSE 0

(* A variant whose comparator is inverted.                                 *)
TopHoursAscending(hours, limit) ==
    { p \in [1..limit -> 1..Len(hours)] :
        /\ \A i, j \in 1..limit : i # j => p[i] # p[j]
        /\ \A i, j \in 1..limit : i < j => hours[p[i]].total <= hours[p[j]].total
        /\ \A k \in 1..Len(hours) :
              (\A i \in 1..limit : p[i] # k) =>
                  \A i \in 1..limit : hours[k].total >= hours[p[i]].total }

(* sort.Slice(hours, total descending) followed by the first `limit`       *)
(* entries, monitor.go:341-357: every outcome an unstable sort allows.     *)
TopHours(hours, limit) ==
    { p \in [1..limit -> 1..Len(hours)] :
        /\ \A i, j \in 1..limit : i # j => p[i] # p[j]
        /\ \A i, j \in 1..limit : i < j => hours[p[i]].total >= hours[p[j]].total
        /\ \A k \in 1..Len(hours) :
              (\A i \in 1..limit : p[i] # k) =>
                  \A i \in 1..limit : hours[k].total <= hours[p[i]].total }

(* The body of `if len(vnstat.Interfaces) > 0`, monitor.go:241-358, for    *)
(* the first interface: the set of records it can leave in `metrics` (one, *)
(* unless the unstable sorts meet equal keys).                             *)
ProcessInterface(server, iface, nowT) ==
    LET base == NewServerMetrics(server, TRUE, nowT)
        acc == HourLoop(iface.hour, Len(iface.hour), nowT)
        limit == IF Len(acc.hours) < PeakLimit THEN Len(acc.hours) ELSE PeakLimit
        todays == IF Len(iface.day) > 0 THEN LatestIndexes(iface.day) ELSE { 0 }
        latests == IF Len(iface.fiveminute) > 0
                   THEN LatestIndexes(iface.fiveminute) ELSE { 0 }
    IN  { [ base EXCEPT
              !.totalRx = IF d = 0 THEN 0 ELSE iface.day[d].rx,
              !.totalTx = IF d = 0 THEN 0 ELSE iface.day[d].tx,
              !.rx = IF f = 0 THEN 0 ELSE iface.fiveminute[f].rx \div FiveMinuteSeconds,
              !.tx = IF f = 0 THEN 0 ELSE iface.fiveminute[f].tx \div FiveMinuteSeconds,
              !.avgRx12h = Average(acc.sumRx12, acc.count12),
              !.avgTx12h = Average(acc.sumTx12, acc.count12),
              !.avgRx24h = Average(acc.sumRx24, acc.count24),
              !.avgTx24h = Average(acc.sumTx24, acc.count24),
              !.peakRx = acc.peakRx,
              !.peakTx = acc.peakTx,
              !.peakEvents = [ i \in 1..limit |->
                                 [ time |-> acc.hours[p[i]].t,
                                   rx |-> acc.hours[p[i]].rx,
                                   tx |-> acc.hours[p[i]].tx ] ] ]
          : d \in todays, f \in latests, p \in TopHours(acc.hours, limit) }

(* A variant that reports a document without interfaces as a failure.      *)
processVnStatDataStrict(server, vnstat, nowT) ==
    IF Len(vnstat.interfaces) = 0
    THEN { [ NewServerMetrics(server, FALSE, nowT) EXCEPT !.error = << "no interfaces" >> ] }
    ELSE ProcessInterface(server, vnstat.interfaces[1], nowT)

(* processVnStatData, monitor.go:233-361: the set of records the call can  *)
(* return.  Without interfaces it returns the record of :234-239 as is.    *)
processVnStatData(server, vnstat, nowT) ==
    IF Len(vnstat.interfaces) = 0
    THEN { NewServerMetrics(server, TRUE, nowT) }
    ELSE ProcessInterface(server, vnstat.interfaces[1], nowT)

----------------------------------------------------------------------------
(* The remote hosts (the environment behind sshclient).  A host's mode is  *)
(* fixed for a run: "ok" answers every call with valid vnStat JSON, "fail" *)
(* fails every call at some step, "stall" accepts the connection and then  *)
(* never answers the command (session.Run has no deadline).                *)

Modes == { "ok", "fail", "stall" }

(* vnStat documents a healthy host can report at time t.                   *)
QuietDoc(t) ==
    [ interfaces |-> << [ updated |-> t,
                          day |-> << [ timestamp |-> t - Hour, rx |-> 9000, tx |-> 9000 ] >>,
                          fiveminute |-> << [ timestamp |-> t, rx |-> 30000, tx |-> 60000 ] >>,
                          hour |-> << >> ] >> ]

BusyDoc(t) ==
    [ interfaces |-> << [ updated |-> t,
                          day |-> << [ timestamp |-> t - Hour, rx |-> 50000, tx |-> 70000 ] >>,
                          fiveminute |-> << [ timestamp |-> t, rx |-> 1500, tx |-> 3000 ] >>,
                          hour |-> << [ timestamp |-> t - 2 * Hour, rx |-> 36000, tx |-> 72000 ],
                                      [ timestamp |-> t - 13 * Hour, rx |-> 3600, tx |-> 7200 ] >> ] >> ]

(* A document with every instant in it moved forward by t seconds: what a  *)
(* host reports t seconds later when its traffic pattern stays the same.   *)
ShiftBuckets(buckets, t) ==
    [i \in 1..Len(buckets) |-> [buckets[i] EXCEPT !.timestamp = @ + t]]

DocAt(doc, t) ==
    [ interfaces |->
        [k \in 1..Len(doc.interfaces) |->
            [ updated |-> doc.interfaces[k].updated + t,
              day |-> ShiftBuckets(doc.interfaces[k].day, t),
              fiveminute |-> ShiftBuckets(doc.interfaces[k].fiveminute, t),
              hour |-> ShiftBuckets(doc.interfaces[k].hour, t) ]] ]

(* The documents of the two traffic patterns, as reported at instant 0.    *)
DefaultDocs == { QuietDoc(0), BusyDoc(0) }

(* Documents that exercise the deriver, as reported at instant 0 (a bucket *)
(* of age a starts at instant -a).                                         *)
Bucket(age, vol) == [ timestamp |-> 0 - age, rx |-> vol.rx, tx |-> vol.tx ]

Interface(day, fiveminute, hour) ==
    [ updated |-> 0, day |-> day, fiveminute |-> fiveminute, hour |-> hour ]

OneInterface(day, fiveminute, hour) ==
    [ interfaces |-> << Interface(day, fiveminute, hour) >> ]

(* Ages on both sides of every edge of the 12h and 24h windows.            *)
HourAges ==
    { 0 - Hour, 0 - 30 * Minute, 0, 12 * Hour, 12 * Hour + 1, 24 * Hour, 24 * Hour + 1 }

(* Hourly volumes, some of them no multiple of 3600.                       *)
HourVolumes ==
    << [ rx |-> 36000, tx |-> 72000 ], [ rx |-> 7300, tx |-> 3700 ],
       [ rx |-> 3600, tx |-> 3600 ], [ rx |-> 10900, tx |-> 100 ],
       [ rx |-> 50000, tx |-> 1 ] >>

(* Hour series of up to MaxHourBuckets buckets of every age.               *)
HourDocs ==
    UNION { { OneInterface(<< >>, << >>, [k \in 1..n |-> Bucket(a[k], HourVolumes[k])])
              : a \in [1..n -> HourAges] }
            : n \in 1..MaxHourBuckets }

(* Hour series of MaxPeakBuckets buckets inside the window, each with one  *)
(* of two volumes: more candidates than peak events, with equal totals.    *)
PeakDocs ==
    { OneInterface(<< >>, << >>,
                   [k \in 1..MaxPeakBuckets |-> Bucket(k * Hour, HourVolumes[v[k]])])
      : v \in [1..MaxPeakBuckets -> { 1, 2 }] }

(* One bucket per hour of the last 24 hours at 1 and 2 bytes per second,   *)
(* the one two hours ago at 10 and 20.                                     *)
SteadyDayDoc ==
    OneInterface(<< >>, << >>,
                 [k \in 1..25 |->
                    Bucket((k - 1) * Hour,
                           IF k = 3 THEN [ rx |-> 36000, tx |-> 72000 ]
                           ELSE [ rx |-> 3600, tx |-> 7200 ])])

(* Five-minute and day buckets, in every order and every selection, and    *)
(* two buckets of the same instant.                                        *)
FiveMinuteBuckets ==
    { Bucket(0, [ rx |-> 1500, tx |-> 3000 ]),
      Bucket(5 * Minute, [ rx |-> 1799, tx |-> 299 ]),
      Bucket(10 * Minute, [ rx |-> 90000, tx |-> 90000 ]) }

DayBuckets ==
    { Bucket(Hour, [ rx |-> 50000, tx |-> 70000 ]),
      Bucket(25 * Hour, [ rx |-> 900000, tx |-> 800000 ]),
      Bucket(49 * Hour, [ rx |-> 20, tx |-> 10 ]) }

Arrangements(S) == UNION { Orders(T) : T \in SUBSET S }

FiveMinuteDocs ==
    { OneInterface(<< >>, five, << >>) : five \in Arrangements(FiveMinuteBuckets) }
    \cup { OneInterface(<< >>, five, << >>)
           : five \in Orders({ Bucket(0, [ rx |-> 1500, tx |-> 3000 ]),
                               Bucket(0, [ rx |-> 600, tx |-> 900 ]) }) }

DayDocs ==
    { OneInterface(day, << >>, << >>) : day \in Arrangements(DayBuckets) }
    \cup { OneInterface(day, << >>, << >>)
           : day \in Orders({ Bucket(Hour, [ rx |-> 50000, tx |-> 70000 ]),
                              Bucket(Hour, [ rx |-> 1, tx |-> 2 ]) }) }

(* A document without interfaces, and one with a second interface that     *)
(* the deriver does not look at.                                           *)
NoInterfaceDoc == [ interfaces |-> << >> ]

TwoInterfaceDoc ==
    [ interfaces |->
        << Interface(<< >>, << Bucket(0, [ rx |-> 1500, tx |-> 3000 ]) >>, << >>),
           Interface(<< Bucket(Hour, [ rx |-> 7, tx |-> 7 ]) >>,
                     << Bucket(0, [ rx |-> 9000, tx |-> 9000 ]) >>,
                     << Bucket(Hour, HourVolumes[1]) >>) >> ]

DeriveDocs ==
    HourDocs \cup PeakDocs \cup { SteadyDayDoc } \cup FiveMinuteDocs \cup DayDocs
    \cup { NoInterfaceDoc, TwoInterfaceDoc }

(* The older collector, monitor.go:492-1008: bucket ids are VnStatTime      *)
(* values, parsed from a number or from a legacy object, and the record is *)
(* derived inside collectMetrics.                                          *)

(* A JSON id: [num |-> n], [obj |-> r] with r the fields of the object, or *)
(* [str |-> s] for any other JSON value.                                   *)
NumId(n) == [ num |-> n ]

ObjId(r) == [ obj |-> r ]

StrId == [ str |-> "2023-10-27" ]

(* getInt, monitor.go:526-533: the field, or 0 when the key is missing.    *)
getInt(m, key) == IF key \in DOMAIN m THEN m[key] ELSE 0

(* A variant that leaves a missing day or month at 0.                      *)
DefaultOneKept(v) == v

(* monitor.go:553-555: day and month default to 1.                         *)
DefaultOne(v) == IF v = 0 THEN 1 ELSE v

IsLeap(year) == year % 4 = 0 /\ (year % 100 # 0 \/ year % 400 = 0)

(* Days from 1970-01-01 to the first day of year.                          *)
DaysSinceEpoch(year) ==
    LET leaps(y) == (y - 1) \div 4 - (y - 1) \div 100 + (y - 1) \div 400
    IN  365 * (year - 1970) + leaps(year) - leaps(1970)

DaysBefore == << 0, 31, 59, 90, 120, 151, 181, 212, 243, 273, 304, 334 >>

(* time.Date(year, month, day, hour, minute, 0, 0, time.UTC) as Unix       *)
(* seconds: an out-of-range month is normalised into the year, the other   *)
(* fields overflow arithmetically.                                         *)
Date(year, month, day, hour, minute) ==
    LET m == (month - 1) % 12
        y == year + ((month - 1) \div 12)
        d == DaysSinceEpoch(y) + DaysBefore[m + 1]
               + (IF IsLeap(y) /\ m + 1 >= 3 THEN 1 ELSE 0) + (day - 1)
    IN  d * (24 * Hour) + hour * Hour + minute * Minute

(* VnStatTime.UnmarshalJSON succeeds, monitor.go:512-524: the value is a   *)
(* number or an object.                                                    *)
UnmarshalOk(id) == "num" \in DOMAIN id \/ "obj" \in DOMAIN id

(* VnStatTime.UnmarshalJSON, monitor.go:510-559: the instant of an id.     *)
UnmarshalJSON(id) ==
    IF "num" \in DOMAIN id THEN id.num
    ELSE LET obj == id.obj
             hasDate == "date" \in DOMAIN obj
             hasTime == "time" \in DOMAIN obj
             year0 == getInt(obj, "year")
             month0 == getInt(obj, "month")
             day0 == getInt(obj, "day")
             hour0 == getInt(obj, "hour")
             minute0 == getInt(obj, "minute")
             year == IF hasDate /\ year0 = 0 THEN getInt(obj.date, "year") ELSE year0
             month == IF hasDate /\ month0 = 0 THEN getInt(obj.date, "month") ELSE month0
             day == IF hasDate /\ day0 = 0 THEN getInt(obj.date, "day") ELSE day0
             hour == IF hasTime /\ hour0 = 0 THEN getInt(obj.time, "hour") ELSE hour0
             minute == IF hasTime /\ minute0 = 0 THEN getInt(obj.time, "minute") ELSE minute0
         IN  Date(year, DefaultOne(month), DefaultOne(day), hour, minute)

(* json.Unmarshal of a series of the older VnStatData, monitor.go:596-615. *)
UnmarshalSeries(series) ==
    [ k \in 1..Len(series) |->
        [ id |-> UnmarshalJSON(series[k].id), rx |-> series[k].rx, tx |-> series[k].tx ] ]

SeriesOk(series) == \A k \in 1..Len(series) : UnmarshalOk(series[k].id)

(* json.Unmarshal into the older VnStatData, monitor.go:561-618.           *)
UnmarshalDocOk(doc) ==
    \A i \in 1..Len(doc.interfaces) :
        /\ SeriesOk(doc.interfaces[i].month)
        /\ SeriesOk(doc.interfaces[i].day)
        /\ SeriesOk(doc.interfaces[i].hour)
        /\ SeriesOk(doc.interfaces[i].minute)

UnmarshalDoc(doc) ==
    [ interfaces |->
        [ i \in 1..Len(doc.interfaces) |->
            [ updated |-> doc.interfaces[i].updated,
              month |-> UnmarshalSeries(doc.interfaces[i].month),
              day |-> UnmarshalSeries(doc.interfaces[i].day),
              hour |-> UnmarshalSeries(doc.interfaces[i].hour),
              minute |-> UnmarshalSeries(doc.interfaces[i].minute) ] ] ]

(* The scan of iface.Traffic.Minute, monitor.go:815-825: the rates of the  *)
(* last of the first n entries that is less than five minutes old.         *)
RECURSIVE MinuteScan(_, _, _)
MinuteScan(minute, n, nowUTC) ==
    IF n = 0 THEN [ found |-> FALSE, latestRx |-> 0, latestTx |-> 0 ]
    ELSE LET acc == MinuteScan(minute, n - 1, nowUTC)
             age == nowUTC - minute[n].id
         IN  IF age < 5 * Minute /\ age >= 0
             THEN [ found |-> TRUE, latestRx |-> minute[n].rx \div Minute,
                    latestTx |-> minute[n].tx \div Minute ]
             ELSE acc

(* The fallback of monitor.go:830-852, for one direction.                  *)
MinuteFallback(minute, dir) ==
    IF Len(minute) >= 2
    THEN IF minute[1][dir] > minute[2][dir]
         THEN (minute[1][dir] - minute[2][dir]) \div Minute
         ELSE minute[1][dir] \div Minute
    ELSE IF Len(minute) > 0 THEN minute[1][dir] \div Minute
    ELSE 0

(* The loop over iface.Traffic.Hour, monitor.go:861-885.                   *)
RECURSIVE LegacyHourLoop(_, _, _)
LegacyHourLoop(hour, n, nowUTC) ==
    IF n = 0
    THEN [ sumRx12 |-> 0, sumTx12 |-> 0, sumRx24 |-> 0, sumTx24 |-> 0,
           count12 |-> 0, count24 |-> 0, peakRx |-> 0, peakTx |-> 0 ]
    ELSE LET acc == LegacyHourLoop(hour, n - 1, nowUTC)
             h == hour[n]
             age == nowUTC - h.id
             rateRx == h.rx \div HourSeconds
             rateTx == h.tx \div HourSeconds
             in12 == age <= 12 * Hour
         IN  IF ~(age <= 24 * Hour /\ age >= 0) THEN acc
             ELSE [ sumRx24 |-> acc.sumRx24 + h.rx,
                    sumTx24 |-> acc.sumTx24 + h.tx,
                    count24 |-> acc.count24 + 1,
                    peakRx |-> IF rateRx > acc.peakRx THEN rateRx ELSE acc.peakRx,
                    peakTx |-> IF rateTx > acc.peakTx THEN rateTx ELSE acc.peakTx,
                    sumRx12 |-> IF in12 THEN acc.sumRx12 + h.rx ELSE acc.sumRx12,
                    sumTx12 |-> IF in12 THEN acc.sumTx12 + h.tx ELSE acc.sumTx12,
                    count12 |-> IF in12 THEN acc.count12 + 1 ELSE acc.count12 ]

(* "Extract metrics", monitor.go:771-904: the record collectMetrics        *)
(* publishes for a parsed document.  This revision has no peak events.     *)
ExtractMetrics(metrics, vnstat, nowUTC) ==
    IF Len(vnstat.interfaces) = 0 THEN [ metrics EXCEPT !.online = TRUE ]
    ELSE LET iface == vnstat.interfaces[1]
             scan == MinuteScan(iface.minute, Len(iface.minute), nowUTC)
             acc == LegacyHourLoop(iface.hour, Len(iface.hour), nowUTC)
         IN  [ metrics EXCEPT
                 !.totalRx = IF Len(iface.day) > 0 THEN iface.day[1].rx ELSE 0,
                 !.totalTx = IF Len(iface.day) > 0 THEN iface.day[1].tx ELSE 0,
                 !.rx = IF scan.found THEN scan.latestRx ELSE MinuteFallback(iface.minute, "rx"),
                 !.tx = IF scan.found THEN scan.latestTx ELSE MinuteFallback(iface.minute, "tx"),
                 !.avgRx12h = Average(acc.sumRx12, acc.count12),
                 !.avgTx12h = Average(acc.sumTx12, acc.count12),
                 !.avgRx24h = Average(acc.sumRx24, acc.count24),
                 !.avgTx24h = Average(acc.sumTx24, acc.count24),
                 !.peakRx = acc.peakRx,
                 !.peakTx = acc.peakTx,
                 !.online = TRUE ]

(* Documents of the older collector.  Their ids are calendar dates, so     *)
(* they are fixed instants and not ages.                                   *)

(* The monitor's clock at construction: 2023-10-27 14:00:00 UTC.           *)
ClockStart == 1698415200

LegacyBucket(id, rx, tx) == [ id |-> id, rx |-> rx, tx |-> tx ]

Stamp(year, month, day, hour, minute) ==
    [ date |-> [ year |-> year, month |-> month, day |-> day ],
      time |-> [ hour |-> hour, minute |-> minute ] ]

LegacyDoc(updated, month, day, hour, minute) ==
    [ interfaces |-> << [ updated |-> updated, month |-> month, day |-> day,
                         hour |-> hour, minute |-> minute ] >> ]

(* The two documents of TestVnStatParsing in one: every bucket in the      *)
(* legacy dialect and in the modern one, and the flat form of the hour id. *)
DialectDoc ==
    LegacyDoc(Stamp(2023, 10, 27, 14, 1),
              << LegacyBucket(ObjId([ year |-> 2023, month |-> 10 ]), 720000, 1440000),
                 LegacyBucket(NumId(1696118400), 720000, 1440000) >>,
              << LegacyBucket(ObjId([ year |-> 2023, month |-> 10, day |-> 27 ]), 24000, 48000),
                 LegacyBucket(NumId(1698364800), 24000, 48000) >>,
              << LegacyBucket(ObjId([ date |-> [ year |-> 2023, month |-> 10, day |-> 27 ],
                                      hour |-> 14 ]), 1000, 2000),
                 LegacyBucket(NumId(ClockStart), 1000, 2000),
                 LegacyBucket(ObjId([ year |-> 2023, month |-> 10, day |-> 27, hour |-> 14 ]),
                              1000, 2000) >>,
              << >>)

(* createLegacyVnStatJSON(t, t) for t = ClockStart + ahead hours + 1min:   *)
(* one hour bucket of 360000 bytes and one minute bucket of 6000 bytes.    *)
SnapshotDoc(ahead) ==
    LegacyDoc(Stamp(2023, 10, 27, 14 + ahead, 1),
              << >>,
              << >>,
              << LegacyBucket(ObjId([ year |-> 2023, month |-> 10, day |-> 27,
                                      hour |-> 14 + ahead ]), 360000, 360000) >>,
              << LegacyBucket(ObjId([ year |-> 2023, month |-> 10, day |-> 27,
                                      hour |-> 14 + ahead, minute |-> 1 ]), 6000, 6000) >>)

(* Ids with missing fields, a leap day, a year end and nested time fields; *)
(* the minute buckets are stale, so the live rate takes the fallback.      *)
CalendarDoc ==
    LegacyDoc(Stamp(2023, 10, 27, 14, 1),
              << LegacyBucket(ObjId([ year |-> 2024 ]), 100, 200),
                 LegacyBucket(ObjId([ year |-> 2024, month |-> 3 ]), 300, 400) >>,
              << LegacyBucket(ObjId([ year |-> 2024, month |-> 2, day |-> 29 ]), 500, 600),
                 LegacyBucket(ObjId([ year |-> 2023, month |-> 12, day |-> 31 ]), 700, 800),
                 LegacyBucket(ObjId([ year |-> 2000, month |-> 3, day |-> 1 ]), 900, 1000) >>,
              << LegacyBucket(ObjId([ date |-> [ year |-> 2023, month |-> 10, day |-> 26 ],
                                      hour |-> 15 ]), 7200, 3600),
                 LegacyBucket(ObjId([ date |-> [ year |-> 2023, month |-> 10, day |-> 27 ],
                                      hour |-> 13 ]), 36000, 72000) >>,
              << LegacyBucket(ObjId([ date |-> [ year |-> 2023, month |-> 12, day |-> 31 ],
                                      time |-> [ hour |-> 23, minute |-> 59 ] ]), 6000, 600),
                 LegacyBucket(ObjId([ date |-> [ year |-> 2023, month |-> 12, day |-> 31 ],
                                      time |-> [ hour |-> 23, minute |-> 58 ] ]), 3000, 1200) >>)

(* A document one of whose ids is a JSON string.                           *)
BadIdDoc ==
    LegacyDoc(Stamp(2023, 10, 27, 14, 1), << >>, << LegacyBucket(StrId, 1, 2) >>, << >>, << >>)

(* The hours by which a host's clock runs ahead of the monitor's.          *)
MaxAhead == 3

LegacyDocs ==
    { DialectDoc, CalendarDoc, BadIdDoc, NoInterfaceDoc }
       \cup { SnapshotDoc(ahead) : ahead \in { 0, MaxAhead } }

(* What `vnstat --json` prints: a JSON document, or bytes that do not      *)
(* parse.                                                                  *)
Garbage == [ json |-> FALSE ]

JsonOf(doc) == [ json |-> TRUE, doc |-> doc ]

ErrDial == << "failed to dial: ", "err" >>
ErrCommand == << "failed to get vnStat data: ", "command failed: ", "err" >>
(* A variant that stores err.Error() as the two branches before it do.     *)
ErrParseUnwrapped == << "err" >>

ErrParse == << "failed to parse vnStat data: ", "err" >>

----------------------------------------------------------------------------
(* The machine the program runs on: files, by path.                        *)

LocalConfigPath == "config.json"
LocalOldConfigPath == "servers.json"
BackupPath == "servers.json.bak"
ConfigFilePath == "/etc/bandwidth-monitor/config.json"
KeyPath == "/etc/bandwidth-monitor/id_ed25519"
PublicKeyPath == "/etc/bandwidth-monitor/id_ed25519.pub"
OldKeyPath == "~/.ssh/bandwidth_monitor_ed25519"
OldPubPath == "~/.ssh/bandwidth_monitor_ed25519.pub"

Paths == { LocalConfigPath, LocalOldConfigPath, BackupPath, ConfigFilePath,
           KeyPath, PublicKeyPath, OldKeyPath, OldPubPath }

(* What os.Stat reports as not existing.                                   *)
Absent == [ exists |-> FALSE ]

NoFiles == [ p \in Paths |-> Absent ]

Exists(fs, path) == fs[path] # Absent

(* os.Rename within one directory tree: dst is replaced.                   *)
Rename(fs, src, dst) == [ fs EXCEPT ![dst] = fs[src], ![src] = Absent ]

----------------------------------------------------------------------------
(* The configuration, config.go of the settings revision.                  *)

(* The defaults Load starts from.                                          *)
DefaultSettings ==
    [ dashboardEnabled |-> TRUE, listenPort |-> 8080, pollInterval |-> 5,
      authUser |-> "admin", authPass |-> "", authEnabled |-> TRUE ]

(* Settings a stored config file can hold.                                 *)
StoredSettings ==
    [ dashboardEnabled |-> TRUE, listenPort |-> 9090, pollInterval |-> 10,
      authUser |-> "root", authPass |-> "stored", authEnabled |-> FALSE ]

(* No Config has been loaded.                                              *)
NoConfig == [ loaded |-> FALSE ]

(* Contents of files: JSON with a servers array, with or without a         *)
(* settings block, or bytes that are not JSON.                             *)
CorruptFile == [ exists |-> TRUE, json |-> FALSE ]

LegacyFile(servers) == [ exists |-> TRUE, json |-> TRUE, servers |-> servers ]

ConfigFile(settings, servers) ==
    [ exists |-> TRUE, json |-> TRUE, settings |-> settings, servers |-> servers ]

(* The servers the command line can name.                                  *)
ServerInputs ==
    ServerConfigs \cup { [name |-> "C", ip |-> "10.0.0.3"], [name |-> "A", ip |-> "10.0.0.9"] }

NameInputs == { s.name : s \in ServerInputs } \cup { "nonexistent" }

(* A variant that finds no name taken.                                     *)
NameExistsNever(servers, name) == FALSE

(* The duplicate scan of AddServer and UpdateServer: for _, s := range     *)
(* c.Servers { if s.Name == name ...                                       *)
NameExists(servers, name) == \E i \in 1..Len(servers) : servers[i].name = name

(* The index of the first server called name, or 0 (idx == -1).            *)
IndexOf(servers, name) ==
    IF NameExists(servers, name)
    THEN CHOOSE i \in 1..Len(servers) :
            /\ servers[i].name = name
            /\ \A j \in 1..(i - 1) : servers[j].name # name
    ELSE 0

(* A variant that stores the new server before it looks for duplicates.    *)
UpdateRejectedAfterWrite(servers, idx, newServer) == [ servers EXCEPT ![idx] = newServer ]

(* c.Servers when UpdateServer returns the duplicate-name error.           *)
UpdateRejected(servers, idx, newServer) == servers

(* json.Unmarshal(data, config) into a Config that holds the defaults: the *)
(* keys the file has replace the fields.                                   *)
UnmarshalConfig(config, data) ==
    [ loaded |-> TRUE,
      settings |-> IF "settings" \in DOMAIN data THEN data.settings ELSE config.settings,
      servers |-> data.servers ]

(* json.MarshalIndent of a Config.                                         *)
MarshalConfig(config) == ConfigFile(config.settings, config.servers)

(* moveFile, config.go: rename, or copy and remove; both need the          *)
(* destination directory to be writable.                                   *)
moveFile(fs, writable, src, dst) ==
    IF writable /\ Exists(fs, src) THEN [ err |-> FALSE, files |-> Rename(fs, src, dst) ]
    ELSE [ err |-> TRUE, files |-> fs ]

(* A variant that leaves the legacy file in place.                         *)
migrateOldConfigNoBackup(fs, writable, oldPath, newPath, defaultConfig) ==
    LET migrated == [ defaultConfig EXCEPT !.servers = fs[oldPath].servers ]
    IN  IF ~fs[oldPath].json \/ ~writable
        THEN [ err |-> TRUE, config |-> NoConfig, files |-> fs ]
        ELSE [ err |-> FALSE, config |-> migrated,
               files |-> [ fs EXCEPT ![newPath] = MarshalConfig(migrated) ] ]

(* migrateOldConfig: read and parse the old file, put its servers into the *)
(* default config, write that to newPath, rename the old file to .bak.     *)
migrateOldConfig(fs, writable, oldPath, newPath, defaultConfig) ==
    LET migrated == [ defaultConfig EXCEPT !.servers = fs[oldPath].servers ]
        written == [ fs EXCEPT ![newPath] = MarshalConfig(migrated) ]
    IN  IF ~fs[oldPath].json \/ ~writable
        THEN [ err |-> TRUE, config |-> NoConfig, files |-> fs ]
        ELSE [ err |-> FALSE, config |-> migrated,
               files |-> Rename(written, oldPath, BackupPath) ]

(* A variant that migrates a legacy file whether or not a config is at the *)
(* new path.                                                               *)
LoadLegacyFirst(fs, writable) ==
    LET config == [ loaded |-> TRUE, settings |-> DefaultSettings, servers |-> << >> ]
        moved == IF Exists(fs, LocalConfigPath)
                 THEN moveFile(fs, writable, LocalConfigPath, ConfigFilePath)
                 ELSE [ err |-> FALSE, files |-> fs ]
        fs1 == moved.files
    IN  IF moved.err THEN [ err |-> TRUE, config |-> NoConfig, files |-> fs1 ]
        ELSE IF Exists(fs1, LocalOldConfigPath)
        THEN migrateOldConfig(fs1, writable, LocalOldConfigPath, ConfigFilePath, config)
        ELSE IF ~Exists(fs1, ConfigFilePath)
        THEN [ err |-> FALSE, config |-> config, files |-> fs1 ]
        ELSE IF ~fs1[ConfigFilePath].json
        THEN [ err |-> TRUE, config |-> NoConfig, files |-> fs1 ]
        ELSE [ err |-> FALSE, config |-> UnmarshalConfig(config, fs1[ConfigFilePath]),
               files |-> fs1 ]

(* Load: the result, the Config and the files it leaves.                   *)
Load(fs, writable) ==
    LET config == [ loaded |-> TRUE, settings |-> DefaultSettings, servers |-> << >> ]
        moved == IF Exists(fs, LocalConfigPath)
                 THEN moveFile(fs, writable, LocalConfigPath, ConfigFilePath)
                 ELSE [ err |-> FALSE, files |-> fs ]
        fs1 == moved.files
        fs2 == IF Exists(fs1, LocalOldConfigPath)
               THEN Rename(fs1, LocalOldConfigPath, BackupPath)
               ELSE fs1
    IN  IF moved.err THEN [ err |-> TRUE, config |-> NoConfig, files |-> fs1 ]
        ELSE IF Exists(fs1, LocalOldConfigPath) /\ ~Exists(fs1, ConfigFilePath)
        THEN migrateOldConfig(fs1, writable, LocalOldConfigPath, ConfigFilePath, config)
        ELSE IF ~Exists(fs2, ConfigFilePath)
        THEN [ err |-> FALSE, config |-> config, files |-> fs2 ]
        ELSE IF ~fs2[ConfigFilePath].json
        THEN [ err |-> TRUE, config |-> NoConfig, files |-> fs2 ]
        ELSE [ err |-> FALSE, config |-> UnmarshalConfig(config, fs2[ConfigFilePath]),
               files |-> fs2 ]

(* No call has been made.                                                  *)
NoCall == [ op |-> "none" ]

----------------------------------------------------------------------------
(* The key pair of the tool, sshclient.go.                                 *)

(* Keys are told apart by a number: the key of the older releases, the key *)
(* a previous run generated, and the keys ssh-keygen generates in this     *)
(* run, each one new.                                                      *)
OldKey == 0

StoredKey == 1

FreshKey(generated) == 2 + generated

MaxKeys == 2

(* The contents of a private key file, of a file that is no private key,   *)
(* and of a public key file, which ends with a newline.                    *)
KeyFile(k) == [ exists |-> TRUE, pem |-> TRUE, key |-> k ]

InvalidKeyFile == [ exists |-> TRUE, pem |-> FALSE, content |-> "INVALID KEY CONTENT" ]

PubFile(k) == [ exists |-> TRUE, pub |-> k, newline |-> TRUE ]

(* A variant that takes any bytes for a private key.                       *)
ParsePrivateKeyAny(data) == TRUE

(* ssh.ParsePrivateKey(privateKeyBytes) succeeds.                          *)
ParsePrivateKey(data) == data.pem

(* strings.TrimSpace(string(publicKeyBytes)): the line without its         *)
(* newline.                                                                *)
TrimSpace(data) == [ pub |-> data.pub ]

(* os.Remove, which needs a directory it can write.                        *)
Remove(fs, writable, path) == IF writable THEN [ fs EXCEPT ![path] = Absent ] ELSE fs

(* GenerateSSHKey: its results and the files it leaves. e is the           *)
(* environment: the key directory can be written, ssh-keygen works, and    *)
(* the number of keys generated so far.                                    *)
GenerateSSHKey(fs, e) ==
    LET movedKey == moveFile(fs, e.writable, OldKeyPath, KeyPath).files
        movedPub == moveFile(movedKey, e.writable, OldPubPath, PublicKeyPath).files
        fs1 == IF Exists(fs, OldKeyPath) THEN movedPub ELSE fs
        fs2 == IF Exists(fs1, KeyPath)
               THEN Remove(Remove(fs1, e.writable, KeyPath), e.writable, PublicKeyPath)
               ELSE fs1
        k == FreshKey(e.generated)
        fs3 == [ fs2 EXCEPT ![KeyPath] = KeyFile(k), ![PublicKeyPath] = PubFile(k) ]
    IN  IF /\ Exists(fs1, KeyPath)
           /\ ParsePrivateKey(fs1[KeyPath])
           /\ Exists(fs1, PublicKeyPath)
        THEN [ err |-> FALSE, privateKey |-> fs1[KeyPath],
               publicKey |-> TrimSpace(fs1[PublicKeyPath]), files |-> fs1,
               generated |-> e.generated ]
        ELSE IF ~e.keygen \/ ~e.writable
        THEN [ err |-> TRUE, privateKey |-> Absent, publicKey |-> Absent, files |-> fs2,
               generated |-> e.generated ]
        ELSE [ err |-> FALSE, privateKey |-> fs3[KeyPath],
               publicKey |-> TrimSpace(fs3[PublicKeyPath]), files |-> fs3,
               generated |-> e.generated + 1 ]

----------------------------------------------------------------------------
(* The web command, main.go, and the dashboard, dashboard.go.              *)

(* The flags of `web` at their defaults, and no Dashboard.                 *)
DefaultFlags == [ noAuth |-> FALSE, authUser |-> "admin", authPass |-> "" ]

NoDashboard == [ created |-> FALSE ]

(* The flags a command line can give.                                      *)
FlagInputs == [ noAuth : BOOLEAN, authUser : { "admin", "ops" }, authPass : { "", "secret" } ]

(* What generateRandomPassword(8) can return.                              *)
RandomPasswords == { "k3Rw9xQa", "Zp7mB2Lt" }

(* A variant that decides as the older release of the command does.        *)
AuthSettingsOlder(f, randomPass) ==
    [ authEnabled |-> ~(f.noAuth /\ f.authPass = ""),
      username |-> f.authUser,
      password |-> IF ~(f.noAuth /\ f.authPass = "") /\ f.authPass = "" THEN "admin"
                   ELSE f.authPass ]

(* A variant that hands the password of the command line on as it is.      *)
AuthSettingsAsGiven(f, randomPass) ==
    [ authEnabled |-> ~f.noAuth,
      username |-> f.authUser,
      password |-> f.authPass ]

(* "Determine auth settings": -no-auth disables; otherwise auth is on, and *)
(* an empty password is replaced by a random one.                          *)
AuthSettings(f, randomPass) ==
    [ authEnabled |-> ~f.noAuth,
      username |-> f.authUser,
      password |-> IF ~f.noAuth /\ f.authPass = "" THEN randomPass ELSE f.authPass ]

NewDashboard(username, password, authEnabled) ==
    [ created |-> TRUE, username |-> username, password |-> password,
      authEnabled |-> authEnabled ]

(* Requests: a path, a method, and what r.BasicAuth() finds.               *)
NoCredentials == [ ok |-> FALSE, user |-> "", pass |-> "" ]

Requests ==
    [ path : { "/", "/api/metrics", "/api/servers", "/favicon.ico" },
      method : { "GET", "POST" },
      creds : { NoCredentials } \cup
              [ ok : { TRUE }, user : { "admin", "ops" },
                pass : { "", "secret" } \cup RandomPasswords ] ]

(* The headers noCache sets before it calls the next handler.              *)
noCache ==
    { << "Cache-Control", "no-cache, no-store, must-revalidate" >>,
      << "Pragma", "no-cache" >>, << "Expires", "0" >> }

(* writeJSONError: the status and an APIResponse with Success false.       *)
writeJSONError(headers, message, statusCode, handler) ==
    [ status |-> statusCode,
      headers |-> headers \cup { << "Content-Type", "application/json" >> },
      body |-> [ kind |-> "json", success |-> FALSE, error |-> message ],
      handler |-> handler, read |-> FALSE ]

(* indexHandler: the page for the path "/", 404 for every other path the   *)
(* mux hands to the pattern "/".                                           *)
indexHandler(headers, r) ==
    IF r.path # "/"
    THEN [ status |-> 404,
           headers |-> headers \cup { << "Content-Type", "text/plain; charset=utf-8" >> },
           body |-> [ kind |-> "text", text |-> "404 page not found" ],
           handler |-> "indexHandler", read |-> FALSE ]
    ELSE [ status |-> 200,
           headers |-> headers \cup { << "Content-Type", "text/html; charset=utf-8" >> },
           body |-> [ kind |-> "page" ],
           handler |-> "indexHandler", read |-> FALSE ]

(* metricsHandler and serversHandler: 405 unless the method is GET, then   *)
(* the metrics read by d.monitor.GetMetrics().                             *)
apiHandler(headers, r, name) ==
    IF r.method # "GET" THEN writeJSONError(headers, "Method not allowed", 405, name)
    ELSE [ status |-> 200,
           headers |-> headers \cup { << "Content-Type", "application/json" >> },
           body |-> [ kind |-> "json", success |-> TRUE,
                      data |-> IF name = "metricsHandler" THEN "metrics" ELSE "servers" ],
           handler |-> name, read |-> TRUE ]

(* The routes of Dashboard.Start: the mux takes the exact patterns first   *)
(* and gives every other path to "/".                                      *)
Route(headers, r) ==
    IF r.path = "/api/metrics" THEN apiHandler(headers, r, "metricsHandler")
    ELSE IF r.path = "/api/servers" THEN apiHandler(headers, r, "serversHandler")
    ELSE indexHandler(headers, r)

(* A variant that compares the user name only.                             *)
basicAuthUserOnly(d, headers, r) ==
    IF ~d.authEnabled THEN Route(headers, r)
    ELSE IF ~r.creds.ok \/ r.creds.user # d.username
    THEN writeJSONError(headers \cup { << "WWW-Authenticate", "Basic realm=\"Bandwidth Monitor\"" >> },
                        "Unauthorized", 401, "none")
    ELSE Route(headers, r)

(* basicAuth around the handler of the route.                              *)
basicAuth(d, headers, r) ==
    IF ~d.authEnabled THEN Route(headers, r)
    ELSE IF ~r.creds.ok \/ r.creds.user # d.username \/ r.creds.pass # d.password
    THEN writeJSONError(headers \cup { << "WWW-Authenticate", "Basic realm=\"Bandwidth Monitor\"" >> },
                        "Unauthorized", 401, "none")
    ELSE Route(headers, r)

(* close(m.stopChan) on a channel that is already closed panics.           *)
Close(closed) == IF closed THEN "panic" ELSE "closed"

----------------------------------------------------------------------------
(* State of the Monitor (monitor.go:116-124) and of its goroutines.        *)

Aggregator == "aggregator"
Cleaner == "cleaner"
Tasks == Hosts \cup { Aggregator, Cleaner }

(* time.Time{} : the zero time, before every instant of the run.           *)
ZeroTime == 0 - 1

(* Addresses of ServerMetrics structs on the heap.                         *)
Addrs == 1..(2 * Cardinality(Hosts) + 1)

VARIABLES
    config,       \* the servers of the config file: a set of ServerConfig
    remote,       \* the documents a healthy host can report, as of instant 0
    pollInterval, \* m.pollInterval, in seconds
    mode,         \* mode[h]: behaviour of host h's remote shell
    now,          \* the wall clock, in seconds
    horizon,      \* the instant at which the model's clock stops
    started,      \* Start has been called
    stopped,      \* stopChan is closed
    tickC,        \* tickC[k]: ticks buffered in task k's ticker.C (capacity 1)
    nextFire,     \* nextFire[k]: the instant task k's ticker fires next
    pollPc,       \* pollPc[h]: position of monitorServer(h)
    fetches,      \* fetches[h]: the collectMetrics(h) calls in progress
    sessions,     \* sessions[h]: the SSH connections to host h that are open
    aggPc,        \* position of updateAggregate
    cleanPc,      \* position of cleanHistory
    mu,           \* holder of m.mu's write lock, or "free"
    metrics,      \* m.metrics, the AggregateMetrics struct
    heap,         \* the published ServerMetrics structs, by address
    snaps,        \* the snapshot last returned by GetMetrics (at most one is kept)
    lastTick,     \* history variable: the scalars written by the last completed aggregator tick
    files,        \* the files of the machine the program runs on, by path
    env,          \* what the machine allows: writing the config directory, running ssh-keygen
    cfg,          \* the *config.Config of a command-line run
    call,         \* the last call made by a command-line run, with its results
    flags,        \* the command-line flags of `web`
    dash,         \* the Dashboard created by startWebDashboard
    proc          \* the position of startWebDashboard

(* Fixed once the monitor is constructed.                                  *)
(* The state outside the monitor: its goroutines never touch it.          *)
tools == << files, env, cfg, call, flags, dash, proc >>

setup == << config, remote, pollInterval, mode, horizon, tools >>

vars == << config, remote, pollInterval, mode, now, horizon, started, stopped, tickC, nextFire,
           pollPc, fetches, sessions, aggPc, cleanPc, mu, metrics, heap, snaps, lastTick,
           files, env, cfg, call, flags, dash, proc >>

(* What `vnstat --json` can print on a healthy host at instant t.          *)
RemoteDocs(t) == { DocAt(d, t) : d \in remote }

(* NewMonitor, monitor.go:134-138.                                         *)
historyLimit ==
    LET limit == HistoryWindow \div pollInterval
    IN  IF limit < 1 THEN 1 ELSE limit

Period(k) == IF k = Cleaner THEN CleanInterval ELSE pollInterval

(* The scalar fields of an AggregateMetrics value.                         *)
Scalars(m) ==
    [ totalRx |-> m.totalRx, totalTx |-> m.totalTx,
      grandTotalAvg |-> m.grandTotalAvg, grandTotalPeak |-> m.grandTotalPeak,
      dominantServer |-> m.dominantServer, updatedAt |-> m.updatedAt ]

(* Nothing outside the monitor is in use.                                  *)
ToolsIdle ==
    /\ files = NoFiles
    /\ env = [ writable |-> TRUE, keygen |-> TRUE, generated |-> 0 ]
    /\ cfg = NoConfig
    /\ call = NoCall
    /\ flags = DefaultFlags
    /\ dash = NoDashboard
    /\ proc = "idle"

(* NewMonitor, monitor.go:127-151: empty map, empty history, zero scalars, *)
(* for a config c, a poll interval p and hosts behaving as m.              *)
NewMonitorAt(c, p, m, start, end) ==
    /\ config = c
    /\ pollInterval = p
    /\ mode = m
    /\ now = start
    /\ horizon = end
    /\ started = FALSE
    /\ stopped = FALSE
    /\ tickC = [k \in Tasks |-> 0]
    /\ nextFire = [k \in Tasks |-> 0]
    /\ pollPc = [h \in Hosts |-> "idle"]
    /\ fetches = [h \in Hosts |-> << >>]
    /\ sessions = [h \in Hosts |-> 0]
    /\ aggPc = "idle"
    /\ cleanPc = "idle"
    /\ mu = "free"
    /\ metrics = [ totalRx |-> 0, totalTx |-> 0, grandTotalAvg |-> 0, grandTotalPeak |-> 0,
                   dominantServer |-> "", serverMetrics |-> << >>, history |-> << >>,
                   updatedAt |-> ZeroTime ]
    /\ heap = << >>
    /\ snaps = << >>
    /\ lastTick = Scalars(metrics)

(* The model's clock starts at 0 unless a document needs calendar dates.   *)
NewMonitor(c, p, m, end) == NewMonitorAt(c, p, m, 0, end)

(* Both servers configured and polled every minute, the hosts behaving in  *)
(* every combination.                                                      *)
Init ==
    \E m \in [Hosts -> Modes] :
        /\ ToolsIdle
        /\ NewMonitor(ServerConfigs, Minute, m, MaxMinutes * Minute)
        /\ remote = DefaultDocs

(* One server configured and polled every two minutes (historyLimit = 2),  *)
(* for a run long enough to take the history past its limit.               *)
SoloConfig == { s \in ServerConfigs : s.name = "A" }

InitSolo ==
    \E m \in [Hosts -> Modes] :
        /\ ToolsIdle
        /\ \A h \in Hosts : (\A s \in SoloConfig : s.name # h) => m[h] = "ok"
        /\ NewMonitor(SoloConfig, 2 * Minute, m, MaxSoloMinutes * Minute)
        /\ remote = DefaultDocs

(* Both servers, the first one failing or stalling on every call, the      *)
(* second one healthy.                                                     *)
InitLive ==
    \E m \in [Hosts -> Modes] :
        /\ ToolsIdle
        /\ m["A"] \in { "fail", "stall" }
        /\ m["B"] = "ok"
        /\ NewMonitor(ServerConfigs, Minute, m, MaxLiveMinutes * Minute)
        /\ remote = DefaultDocs

(* One server polled every minute: healthy and reporting one of the        *)
(* documents above on every poll, or failing.                              *)
InitDerive ==
    \E m \in [Hosts -> Modes] :
        /\ ToolsIdle
        /\ \A h \in Hosts : (\A s \in SoloConfig : s.name # h) => m[h] = "ok"
        /\ NewMonitor(SoloConfig, Minute, m, MaxDeriveMinutes * Minute)
        /\ \/ /\ \E s \in SoloConfig : m[s.name] = "ok"
              /\ \E d \in DeriveDocs : remote = { d }
           \/ /\ \E s \in SoloConfig : m[s.name] = "fail"
              /\ remote = { NoInterfaceDoc }

(* The older collector polling one server every minute from ClockStart:   *)
(* healthy and printing one of the documents above, or failing.            *)
InitLegacy ==
    \E m \in [Hosts -> Modes] :
        /\ ToolsIdle
        /\ \A h \in Hosts : (\A s \in SoloConfig : s.name # h) => m[h] = "ok"
        /\ NewMonitorAt(SoloConfig, Minute, m, ClockStart,
                        ClockStart + MaxLegacyMinutes * Minute)
        /\ \/ /\ \E s \in SoloConfig : m[s.name] = "ok"
              /\ \E d \in LegacyDocs : remote = { d }
           \/ /\ \E s \in SoloConfig : m[s.name] = "fail"
              /\ remote = { NoInterfaceDoc }

(* Start, monitor.go:154-171: one monitorServer goroutine per configured   *)
(* A variant that starts a poller for every host there is.                 *)
SpawnedAll(servers, h) == TRUE

(* for _, server := range servers { go ... m.monitorServer(s) },           *)
(* monitor.go:157-163: host h gets a poller.                               *)
Spawned(servers, h) == \E s \in servers : s.name = h

(* server, the history cleaner and the aggregator; each creates its ticker.*)
Start ==
    /\ ~started
    /\ started' = TRUE
    /\ pollPc' = [h \in Hosts |-> IF Spawned(config, h) THEN "select" ELSE "idle"]
    /\ aggPc' = "select"
    /\ cleanPc' = "select"
    /\ nextFire' = [k \in Tasks |-> now + Period(k)]
    /\ UNCHANGED << setup, now, stopped, tickC, fetches, sessions, mu, metrics, heap, snaps, lastTick >>

(* Stop, monitor.go:174-176: close(m.stopChan).                            *)
Stop ==
    /\ started
    /\ ~stopped
    /\ stopped' = TRUE
    /\ UNCHANGED << setup, now, started, tickC, nextFire, pollPc, fetches, sessions,
                    aggPc, cleanPc, mu, metrics, heap, snaps, lastTick >>

----------------------------------------------------------------------------
(* The store: m.metrics.ServerMetrics maps a name to a *ServerMetrics.     *)

MapRange(f) == { f[k] : k \in DOMAIN f }

(* Addresses reachable from the monitor's map or from a returned snapshot; *)
(* every other struct is garbage.                                          *)
Referenced(m, sn) ==
    MapRange(m.serverMetrics) \cup
    UNION { MapRange(sn[i].serverMetrics) : i \in 1..Len(sn) }

Restrict(f, S) == [a \in (DOMAIN f) \cap S |-> f[a]]

(* A variant that updates the server's current struct in place instead of  *)
(* allocating one.                                                         *)
AllocAddrInPlace(h) ==
    IF h \in DOMAIN metrics.serverMetrics THEN metrics.serverMetrics[h]
    ELSE LET free == Addrs \ Referenced(metrics, snaps)
         IN  CHOOSE a \in free : \A b \in free : a <= b

(* &ServerMetrics{...}, monitor.go:195 and :234: every collectMetrics call *)
(* allocates a fresh struct.                                               *)
AllocAddr(h) ==
    LET free == Addrs \ Referenced(metrics, snaps)
    IN  CHOOSE a \in free : \A b \in free : a <= b

(* m.mu.Lock() / m.mu.RLock() return once no writer holds the lock.  The   *)
(* locked sections of setServerMetrics, cleanHistory and GetMetrics are    *)
(* single steps, so only the aggregator is ever seen holding it.           *)
CanLock == mu = "free"

(* A variant of the reader that does not wait for the writer.              *)
CanRLockUnguarded == TRUE

CanRLock == mu = "free"

(* A variant that writes the fields into the struct the map already holds *)
(* for the server.                                                         *)
setServerMetricsInPlace(name, rec, addr) ==
    /\ CanLock
    /\ IF name \in DOMAIN metrics.serverMetrics
       THEN /\ metrics' = metrics
            /\ heap' = [heap EXCEPT ![metrics.serverMetrics[name]] = rec]
       ELSE /\ metrics' = [metrics EXCEPT !.serverMetrics =
                            [n \in (DOMAIN metrics.serverMetrics) \cup { name } |->
                               IF n = name THEN addr ELSE metrics.serverMetrics[n]]]
            /\ heap' = [a \in (DOMAIN heap) \cup { addr } |->
                          IF a = addr THEN rec ELSE heap[a]]

(* A variant that builds a new map holding the one record.                *)
setServerMetricsAlone(name, rec, addr) ==
    /\ CanLock
    /\ metrics' = [metrics EXCEPT !.serverMetrics = [n \in { name } |-> addr]]
    /\ heap' = Restrict([a \in (DOMAIN heap) \cup { addr } |->
                           IF a = addr THEN rec ELSE heap[a]],
                        Referenced(metrics', snaps))

(* setServerMetrics, monitor.go:364-368.                                   *)
setServerMetrics(name, rec, addr) ==
    /\ CanLock
    /\ metrics' = [metrics EXCEPT !.serverMetrics =
                     [n \in (DOMAIN metrics.serverMetrics) \cup { name } |->
                        IF n = name THEN addr ELSE metrics.serverMetrics[n]]]
    /\ heap' = Restrict([a \in (DOMAIN heap) \cup { addr } |->
                           IF a = addr THEN rec ELSE heap[a]],
                        Referenced(metrics', snaps))

----------------------------------------------------------------------------
(* monitorServer, monitor.go:179-191, and collectMetrics, :194-230.        *)

(* Variants of the loop: one that starts collectMetrics in a goroutine of  *)
(* its own, and one in which all the servers share a single loop.          *)
LoopReadyAsync(h) == TRUE

LoopReadyShared(h) == \A g \in Hosts : fetches[g] = << >>

(* collectMetrics is called synchronously from the loop (monitor.go:188):  *)
(* the loop is back at its select only when no call is in progress.        *)
LoopReady(h) == fetches[h] = << >>

RemoveAt(s, i) == [j \in 1..(Len(s) - 1) |-> IF j < i THEN s[j] ELSE s[j + 1]]

(* A collectMetrics call in progress is its position and its locals: the  *)
(* session (client), whether GetVnStatData returned without error (got),   *)
(* its output (jsonData), the parsed document (vnstat) and the record      *)
(* (metrics, then processedMetrics) it goes on to publish.                 *)
NoVnStat == [ interfaces |-> << >> ]

(* case <-ticker.C: collectMetrics starts and builds its offline record.   *)
PollTick(h) ==
    /\ pollPc[h] = "select"
    /\ LoopReady(h)
    /\ tickC[h] = 1
    /\ tickC' = [tickC EXCEPT ![h] = 0]
    /\ fetches' = [fetches EXCEPT ![h] =
                     Append(@, [ phase |-> "connect", session |-> FALSE,
                                 got |-> FALSE, jsonData |-> Garbage, vnstat |-> NoVnStat,
                                 rec |-> NewServerMetrics(ConfigOf(h), FALSE, now) ])]
    /\ UNCHANGED << setup, now, started, stopped, nextFire, pollPc, aggPc, cleanPc,
                    mu, metrics, heap, snaps, lastTick, sessions >>

(* case <-m.stopChan: return.                                              *)
PollReturn(h) ==
    /\ pollPc[h] = "select"
    /\ LoopReady(h)
    /\ stopped
    /\ pollPc' = [pollPc EXCEPT ![h] = "returned"]
    /\ UNCHANGED << setup, now, started, stopped, tickC, nextFire, fetches, sessions, aggPc, cleanPc,
                    mu, metrics, heap, snaps, lastTick >>

(* A variant that builds the record as processVnStatData does, online.     *)
OfflineRecordOnline(rec, err) == [rec EXCEPT !.error = err, !.online = TRUE]

(* The record published when a step of the tick fails, monitor.go:204-207, *)
(* :213-216, :221-224: the offline record with its Error set.              *)
OfflineRecord(rec, err) == [rec EXCEPT !.error = err]

(* A variant that goes back to the dial after a failed dial.               *)
DialFailedRetry(f) == [ f EXCEPT !.phase = "connect", !.rec = OfflineRecord(@, ErrDial) ]

(* if err != nil after NewClientWithKey, monitor.go:204-207: the call goes *)
(* on to publish the offline record and return.                            *)
DialFailed(f) == [ f EXCEPT !.phase = "publish", !.rec = OfflineRecord(@, ErrDial) ]

(* sshclient.NewClientWithKey, monitor.go:203-209.                         *)
Dial(h, i) ==
    /\ i \in 1..Len(fetches[h])
    /\ fetches[h][i].phase = "connect"
    /\ \/ /\ mode[h] = "fail"
          /\ fetches' = [fetches EXCEPT ![h][i] = DialFailed(@)]
          /\ UNCHANGED sessions
       \/ /\ fetches' = [fetches EXCEPT ![h][i] =
                           [ @ EXCEPT !.phase = "command", !.session = TRUE ]]
          /\ sessions' = [sessions EXCEPT ![h] = @ + 1]
    /\ UNCHANGED << setup, now, started, stopped, tickC, nextFire, pollPc, aggPc, cleanPc,
                    mu, metrics, heap, snaps, lastTick >>

(* The outcomes of client.GetVnStatData on host h at this instant.         *)
CommandOutcomes(h) ==
    IF mode[h] = "ok" THEN { [ok |-> TRUE, out |-> JsonOf(d)] : d \in RemoteDocs(now) }
    ELSE IF mode[h] = "fail" THEN { [ok |-> FALSE, out |-> Garbage], [ok |-> TRUE, out |-> Garbage] }
    ELSE { }

(* client.GetVnStatData, json.Unmarshal and processVnStatData,             *)
(* monitor.go:212-228: the locals this call can end up with, among them    *)
(* the record it goes on to publish.                                       *)
CollectResults(h, rec) ==
    UNION { IF ~o.ok
            THEN { [ got |-> FALSE, jsonData |-> Garbage, vnstat |-> NoVnStat,
                     rec |-> OfflineRecord(rec, ErrCommand) ] }
            ELSE IF ~o.out.json
            THEN { [ got |-> TRUE, jsonData |-> o.out, vnstat |-> NoVnStat,
                     rec |-> OfflineRecord(rec, ErrParse) ] }
            ELSE { [ got |-> TRUE, jsonData |-> o.out, vnstat |-> o.out.doc, rec |-> r ]
                   : r \in processVnStatData(ConfigOf(h), o.out.doc, now) }
          : o \in CommandOutcomes(h) }

RunCommand(h, i) ==
    /\ i \in 1..Len(fetches[h])
    /\ fetches[h][i].phase = "command"
    /\ \E r \in CollectResults(h, fetches[h][i].rec) :
          fetches' = [fetches EXCEPT ![h][i] =
                        [ phase |-> "publish", session |-> TRUE, got |-> r.got,
                          jsonData |-> r.jsonData, vnstat |-> r.vnstat, rec |-> r.rec ]]
    /\ UNCHANGED << setup, now, started, stopped, tickC, nextFire, pollPc, aggPc, cleanPc,
                    mu, metrics, heap, snaps, lastTick, sessions >>

(* A variant that closes the connection at the end of the success path    *)
(* only.                                                                   *)
CloseOnSuccess(f) == IF f.session /\ f.rec.online THEN 1 ELSE 0

(* defer client.Close(), monitor.go:209: registered once the dial has      *)
(* succeeded, it closes the connection whenever collectMetrics returns.    *)
(* The number of connections the return of call f closes.                  *)
CloseOnReturn(f) == IF f.session THEN 1 ELSE 0

(* m.setServerMetrics(server.Name, ...) and the return of collectMetrics,  *)
(* which runs the deferred client.Close().                                 *)
Publish(h, i) ==
    /\ i \in 1..Len(fetches[h])
    /\ fetches[h][i].phase = "publish"
    /\ setServerMetrics(h, fetches[h][i].rec, AllocAddr(h))
    /\ fetches' = [fetches EXCEPT ![h] = RemoveAt(@, i)]
    /\ sessions' = [sessions EXCEPT ![h] = @ - CloseOnReturn(fetches[h][i])]
    /\ UNCHANGED << setup, now, started, stopped, tickC, nextFire, pollPc, aggPc, cleanPc,
                    mu, snaps, lastTick >>

(* The same three steps in the older collector, monitor.go:758-904.        *)
LegacyOutcomes(h) ==
    IF mode[h] = "ok" THEN { [ok |-> TRUE, out |-> JsonOf(d)] : d \in remote }
    ELSE CommandOutcomes(h)

LegacyResults(h, rec) ==
    { IF ~o.ok
      THEN [ got |-> FALSE, jsonData |-> Garbage, vnstat |-> NoVnStat,
             rec |-> OfflineRecord(rec, ErrCommand) ]
      ELSE IF ~o.out.json \/ ~UnmarshalDocOk(o.out.doc)
      THEN [ got |-> TRUE, jsonData |-> o.out, vnstat |-> NoVnStat,
             rec |-> OfflineRecord(rec, ErrParse) ]
      ELSE [ got |-> TRUE, jsonData |-> o.out, vnstat |-> UnmarshalDoc(o.out.doc),
             rec |-> ExtractMetrics(rec, UnmarshalDoc(o.out.doc), now) ]
    : o \in LegacyOutcomes(h) }

RunCommandLegacy(h, i) ==
    /\ i \in 1..Len(fetches[h])
    /\ fetches[h][i].phase = "command"
    /\ \E r \in LegacyResults(h, fetches[h][i].rec) :
          fetches' = [fetches EXCEPT ![h][i] =
                        [ phase |-> "publish", session |-> TRUE, got |-> r.got,
                          jsonData |-> r.jsonData, vnstat |-> r.vnstat, rec |-> r.rec ]]
    /\ UNCHANGED << setup, now, started, stopped, tickC, nextFire, pollPc, aggPc, cleanPc,
                    mu, metrics, heap, snaps, lastTick, sessions >>

----------------------------------------------------------------------------
(* updateAggregate, monitor.go:371-429.                                    *)

(* A variant that adds both peaks of a server instead of the larger one.   *)
AggStepBothPeaks(acc, rec) ==
    IF ~rec.online THEN acc
    ELSE LET serverAvg == rec.avgRx24h + rec.avgTx24h
             serverPeak == rec.peakRx + rec.peakTx
         IN  [ totalRx |-> acc.totalRx + rec.rx,
               totalTx |-> acc.totalTx + rec.tx,
               grandTotalAvg |-> acc.grandTotalAvg + serverAvg,
               grandTotalPeak |-> acc.grandTotalPeak + serverPeak,
               maxUsage |-> IF serverAvg > acc.maxUsage THEN serverAvg ELSE acc.maxUsage,
               dominantServer |-> IF serverAvg > acc.maxUsage THEN rec.name
                                  ELSE acc.dominantServer ]

(* The body of the range loop for one record, monitor.go:387-408.          *)
AggStep(acc, rec) ==
    IF ~rec.online THEN acc
    ELSE LET serverAvg == rec.avgRx24h + rec.avgTx24h
             serverPeak == IF rec.peakTx > rec.peakRx THEN rec.peakTx ELSE rec.peakRx
         IN  [ totalRx |-> acc.totalRx + rec.rx,
               totalTx |-> acc.totalTx + rec.tx,
               grandTotalAvg |-> acc.grandTotalAvg + serverAvg,
               grandTotalPeak |-> acc.grandTotalPeak + serverPeak,
               maxUsage |-> IF serverAvg > acc.maxUsage THEN serverAvg ELSE acc.maxUsage,
               dominantServer |-> IF serverAvg > acc.maxUsage THEN rec.name
                                  ELSE acc.dominantServer ]

(* The range loop over the map, visiting the keys in the given order: the  *)
(* accumulators after the first n keys (monitor.go:382-409).               *)
RECURSIVE AggLoop(_, _)
AggLoop(order, n) ==
    IF n = 0
    THEN [ totalRx |-> 0, totalTx |-> 0, grandTotalAvg |-> 0, grandTotalPeak |-> 0,
           maxUsage |-> 0, dominantServer |-> "" ]
    ELSE AggStep(AggLoop(order, n - 1), heap[metrics.serverMetrics[order[n]]])

(* case <-ticker.C, m.mu.Lock(), the loop and the writes of the totals,    *)
(* monitor.go:379-415.  Go ranges over a map in an unspecified order.      *)
AggSum ==
    /\ aggPc = "select"
    /\ tickC[Aggregator] = 1
    /\ CanLock
    /\ tickC' = [tickC EXCEPT ![Aggregator] = 0]
    /\ mu' = Aggregator
    /\ \E order \in Orders(DOMAIN metrics.serverMetrics) :
          LET acc == AggLoop(order, Len(order))
          IN  metrics' = [metrics EXCEPT !.totalRx = acc.totalRx,
                                         !.totalTx = acc.totalTx,
                                         !.grandTotalAvg = acc.grandTotalAvg,
                                         !.grandTotalPeak = acc.grandTotalPeak,
                                         !.dominantServer = acc.dominantServer]
    /\ aggPc' = "written"
    /\ UNCHANGED << setup, now, started, stopped, nextFire, pollPc, fetches, sessions, cleanPc,
                    heap, snaps, lastTick >>

(* A variant that records the totals of the tick before.                   *)
HistoryEntryStale(m, t) ==
    [ timestamp |-> t, totalRx |-> lastTick.totalRx, totalTx |-> lastTick.totalTx ]

(* entry := HistoryEntry{...}, monitor.go:419-423: the totals just         *)
(* written.                                                                *)
HistoryEntry(m, t) == [ timestamp |-> t, totalRx |-> m.totalRx, totalTx |-> m.totalTx ]

(* A variant that puts the new entry in front.                             *)
AppendHistoryFront(history, entry) == << entry >> \o history

(* m.metrics.History = append(m.metrics.History, entry), monitor.go:424.   *)
AppendHistory(history, entry) == Append(history, entry)

(* UpdatedAt, the history entry and m.mu.Unlock(), monitor.go:416-426.     *)
AggStamp ==
    /\ aggPc = "written"
    /\ metrics' = [metrics EXCEPT
                     !.updatedAt = now,
                     !.history = AppendHistory(@, HistoryEntry(metrics, now))]
    /\ mu' = "free"
    /\ aggPc' = "select"
    /\ lastTick' = Scalars(metrics')
    /\ UNCHANGED << setup, now, started, stopped, tickC, nextFire, pollPc, fetches, sessions, cleanPc,
                    heap, snaps >>

(* case <-m.stopChan of updateAggregate.                                   *)
AggReturn ==
    /\ aggPc = "select"
    /\ stopped
    /\ aggPc' = "returned"
    /\ UNCHANGED << setup, now, started, stopped, tickC, nextFire, pollPc, fetches, sessions, cleanPc,
                    mu, metrics, heap, snaps, lastTick >>

----------------------------------------------------------------------------
(* cleanHistory, monitor.go:432-448.                                       *)

(* A variant that keeps the front of the slice.                            *)
TrimHistoryOldest(history) ==
    IF Len(history) > historyLimit
    THEN SubSeq(history, 1, historyLimit)
    ELSE history

(* A variant whose slice expression is off by one.                         *)
TrimHistoryOffByOne(history) ==
    IF Len(history) > historyLimit
    THEN SubSeq(history, Len(history) - historyLimit, Len(history))
    ELSE history

(* The locked body, monitor.go:442-444.                                    *)
TrimHistory(history) ==
    IF Len(history) > historyLimit
    THEN SubSeq(history, Len(history) - historyLimit + 1, Len(history))
    ELSE history

(* case <-ticker.C with its locked body, monitor.go:440-445.               *)
CleanTick ==
    /\ cleanPc = "select"
    /\ tickC[Cleaner] = 1
    /\ CanLock
    /\ tickC' = [tickC EXCEPT ![Cleaner] = 0]
    /\ metrics' = [metrics EXCEPT !.history = TrimHistory(@)]
    /\ UNCHANGED << setup, now, started, stopped, nextFire, pollPc, fetches, sessions, aggPc, cleanPc,
                    mu, heap, snaps, lastTick >>

(* case <-m.stopChan of cleanHistory.                                      *)
CleanReturn ==
    /\ cleanPc = "select"
    /\ stopped
    /\ cleanPc' = "returned"
    /\ UNCHANGED << setup, now, started, stopped, tickC, nextFire, pollPc, fetches, sessions, aggPc,
                    mu, metrics, heap, snaps, lastTick >>

----------------------------------------------------------------------------
(* GetMetrics, monitor.go:451-473: under the read lock, a fresh struct     *)
(* with the scalars, a fresh map holding the same pointers and a fresh     *)
(* copy of the history.                                                    *)
ReadMetrics ==
    /\ CanRLock
    /\ snaps' = << [ totalRx |-> metrics.totalRx,
                     totalTx |-> metrics.totalTx,
                     grandTotalAvg |-> metrics.grandTotalAvg,
                     grandTotalPeak |-> metrics.grandTotalPeak,
                     dominantServer |-> metrics.dominantServer,
                     serverMetrics |-> metrics.serverMetrics,
                     history |-> metrics.history,
                     updatedAt |-> metrics.updatedAt ] >>
    /\ heap' = Restrict(heap, Referenced(metrics, snaps'))

(* A reader calls GetMetrics.                                              *)
GetMetrics ==
    /\ ReadMetrics
    /\ UNCHANGED << setup, now, started, stopped, tickC, nextFire, pollPc, fetches, sessions,
                    aggPc, cleanPc, mu, metrics, lastTick >>

----------------------------------------------------------------------------
(* Time.  The bodies of the handlers are computations in memory: at the    *)
(* granularity of the clock (one minute) they take no time, so the clock   *)
(* advances only when no goroutine has such a step to take.  The network   *)
(* operations of a poll (the dial and the remote command) can last any     *)
(* number of clock steps.                                                  *)

LocalStepEnabled ==
    \/ \E h \in Hosts :
          \/ pollPc[h] = "select" /\ LoopReady(h) /\ (tickC[h] = 1 \/ stopped)
          \/ \E i \in 1..Len(fetches[h]) : fetches[h][i].phase = "publish"
    \/ aggPc = "select" /\ (tickC[Aggregator] = 1 \/ stopped)
    \/ aggPc = "written"
    \/ cleanPc = "select" /\ (tickC[Cleaner] = 1 \/ stopped)

(* A task's ticker is live from its creation until the deferred            *)
(* ticker.Stop() runs when the task returns.                               *)
TickerLive(k) ==
    IF k = Aggregator THEN aggPc \notin { "idle", "returned" }
    ELSE IF k = Cleaner THEN cleanPc \notin { "idle", "returned" }
    ELSE pollPc[k] \notin { "idle", "returned" }

(* The clock advances by one minute.  A live ticker whose instant has come *)
(* sends on its channel of capacity 1 without blocking: the tick is        *)
(* dropped when one is already buffered (time.Ticker).                     *)
Advance ==
    /\ started
    /\ ~LocalStepEnabled
    /\ now < horizon
    /\ now' = now + Minute
    /\ tickC' = [k \in Tasks |->
                   IF TickerLive(k) /\ nextFire[k] <= now' THEN 1 ELSE tickC[k]]
    /\ nextFire' = [k \in Tasks |->
                      IF TickerLive(k) /\ nextFire[k] <= now'
                      THEN nextFire[k] + Period(k) ELSE nextFire[k]]
    /\ UNCHANGED << setup, started, stopped, pollPc, fetches, sessions, aggPc, cleanPc,
                    mu, metrics, heap, snaps, lastTick >>

----------------------------------------------------------------------------

(* The goroutines of the monitor at work, and the clock.                   *)
Run ==
    \/ Start
    \/ Advance
    \/ \E h \in Hosts : PollTick(h)
    \/ \E h \in Hosts : \E i \in 1..Len(fetches[h]) : Dial(h, i)
    \/ \E h \in Hosts : \E i \in 1..Len(fetches[h]) : RunCommand(h, i)
    \/ \E h \in Hosts : \E i \in 1..Len(fetches[h]) : Publish(h, i)
    \/ AggSum
    \/ AggStamp
    \/ CleanTick

(* The stop branches of the three loops.                                   *)
Return ==
    \/ \E h \in Hosts : PollReturn(h)
    \/ AggReturn
    \/ CleanReturn

Next == Run

(* The running monitor, never stopped and never read.                      *)
Spec == Init /\ [][Next]_vars

(* The running monitor polling a server that reports a chosen document.    *)
DeriveSpec == InitDerive /\ [][Next]_vars

(* The older collector at work.                                            *)
NextLegacy ==
    \/ Start
    \/ Advance
    \/ \E h \in Hosts : PollTick(h)
    \/ \E h \in Hosts : \E i \in 1..Len(fetches[h]) : Dial(h, i)
    \/ \E h \in Hosts : \E i \in 1..Len(fetches[h]) : RunCommandLegacy(h, i)
    \/ \E h \in Hosts : \E i \in 1..Len(fetches[h]) : Publish(h, i)
    \/ AggSum
    \/ AggStamp
    \/ CleanTick

LegacySpec == InitLegacy /\ [][NextLegacy]_vars

(* The running monitor with a reader calling GetMetrics at any moment.     *)
NextSolo == Run \/ GetMetrics

SoloSpec == InitSolo /\ [][NextSolo]_vars

(* The monitor with Stop called at any moment, under fair scheduling: the  *)
(* Go scheduler runs every runnable goroutine, a select with several ready *)
(* cases picks each of them with equal probability, m.mu is handed to      *)
(* every waiter, and a dial ends by its 10 s timeout at the latest.        *)
NextLive == Run \/ Stop \/ Return

Fairness ==
    /\ WF_vars(Start)
    /\ WF_vars(Advance)
    /\ \A h \in Hosts :
          /\ SF_vars(PollTick(h))
          /\ SF_vars(PollReturn(h))
          /\ WF_vars(\E i \in 1..Len(fetches[h]) : Dial(h, i))
          /\ WF_vars(\E i \in 1..Len(fetches[h]) : RunCommand(h, i))
          /\ SF_vars(\E i \in 1..Len(fetches[h]) : Publish(h, i))
    /\ SF_vars(AggSum)
    /\ WF_vars(AggStamp)
    /\ SF_vars(AggReturn)
    /\ SF_vars(CleanTick)
    /\ SF_vars(CleanReturn)

FairSpec == InitLive /\ [][NextLive]_vars /\ Fairness

----------------------------------------------------------------------------
(* A command-line run working on the configuration.                        *)

monitorVars == << config, remote, pollInterval, mode, now, horizon, started, stopped, tickC,
                  nextFire, pollPc, fetches, sessions, aggPc, cleanPc, mu, metrics, heap,
                  snaps, lastTick >>

(* cfg, err := config.Load() at the start of a run; on an error the run    *)
(* ends without a Config.                                                  *)
LoadConfig ==
    /\ ~cfg.loaded
    /\ LET r == Load(files, env.writable)
       IN  /\ files' = r.files
           /\ cfg' = r.config
           /\ call' = [ op |-> "Load", err |-> r.err, before |-> files ]
    /\ UNCHANGED << monitorVars, env, flags, dash, proc >>

(* The run returns and the process ends, as listServers does after it has  *)
(* printed the servers: the Config it held is gone, the files stay.        *)
ExitRun ==
    /\ cfg.loaded
    /\ cfg' = NoConfig
    /\ call' = [ op |-> "exit" ]
    /\ UNCHANGED << monitorVars, files, env, flags, dash, proc >>

(* Config.AddServer.                                                       *)
AddServer(server) ==
    /\ cfg.loaded
    /\ LET exists == NameExists(cfg.servers, server.name)
       IN  /\ cfg' = IF exists THEN cfg ELSE [ cfg EXCEPT !.servers = Append(@, server) ]
           /\ call' = [ op |-> "AddServer", name |-> server.name, err |-> exists ]
    /\ UNCHANGED << monitorVars, files, env, flags, dash, proc >>

(* Config.UpdateServer.                                                    *)
UpdateServer(oldName, newServer) ==
    /\ cfg.loaded
    /\ LET idx == IndexOf(cfg.servers, oldName)
           duplicate == oldName # newServer.name /\ NameExists(cfg.servers, newServer.name)
       IN  /\ cfg' = IF idx = 0 THEN cfg
                     ELSE IF duplicate
                     THEN [ cfg EXCEPT !.servers = UpdateRejected(@, idx, newServer) ]
                     ELSE [ cfg EXCEPT !.servers[idx] = newServer ]
           /\ call' = [ op |-> "UpdateServer", name |-> oldName, newName |-> newServer.name,
                        err |-> (idx = 0 \/ duplicate) ]
    /\ UNCHANGED << monitorVars, files, env, flags, dash, proc >>

(* Config.RemoveServer: false when no server has the name.                 *)
RemoveServer(name) ==
    /\ cfg.loaded
    /\ LET idx == IndexOf(cfg.servers, name)
       IN  /\ cfg' = IF idx = 0 THEN cfg ELSE [ cfg EXCEPT !.servers = RemoveAt(@, idx) ]
           /\ call' = [ op |-> "RemoveServer", name |-> name, err |-> (idx = 0) ]
    /\ UNCHANGED << monitorVars, files, env, flags, dash, proc >>

(* The files a run of the tool can find: a config.json in the working      *)
(* directory, a legacy servers.json, a config at the new path.             *)
FileInputs ==
    { f \in [ Paths -> { Absent, CorruptFile,
                         LegacyFile(<< [name |-> "A", ip |-> "10.0.0.1"] >>),
                         ConfigFile(StoredSettings, << [name |-> "B", ip |-> "10.0.0.2"] >>) } ] :
        /\ \A path \in Paths \ { LocalConfigPath, LocalOldConfigPath, ConfigFilePath } :
              f[path] = Absent
        /\ f[LocalConfigPath] \in { Absent, ConfigFile(StoredSettings,
                                                     << [name |-> "B", ip |-> "10.0.0.2"] >>) } }

InitConfig ==
    /\ NewMonitor(SoloConfig, Minute, [h \in Hosts |-> "ok"], 0)
    /\ remote = DefaultDocs
    /\ files \in FileInputs
    /\ env \in [ writable : BOOLEAN, keygen : { TRUE }, generated : { 0 } ]
    /\ cfg = NoConfig
    /\ call = NoCall
    /\ flags = DefaultFlags
    /\ dash = NoDashboard
    /\ proc = "idle"

NextConfig ==
    \/ LoadConfig
    \/ \E server \in ServerInputs : AddServer(server)
    \/ \E oldName \in NameInputs : \E newServer \in ServerInputs : UpdateServer(oldName, newServer)
    \/ \E name \in NameInputs : RemoveServer(name)
    \/ ExitRun

ConfigSpec == InitConfig /\ [][NextConfig]_vars

----------------------------------------------------------------------------
(* The setup of a server, which asks for the key pair.                     *)

(* privateKey, publicKey, err := sshclient.GenerateSSHKey().               *)
GenerateKey ==
    /\ env.generated < MaxKeys
    /\ LET r == GenerateSSHKey(files, env)
       IN  /\ files' = r.files
           /\ env' = [ env EXCEPT !.generated = r.generated ]
           /\ call' = [ op |-> "GenerateSSHKey", err |-> r.err,
                        privateKey |-> r.privateKey, publicKey |-> r.publicKey ]
    /\ UNCHANGED << monitorVars, cfg, flags, dash, proc >>

(* The private key file is overwritten with bytes that are no key.         *)
CorruptKey ==
    /\ Exists(files, KeyPath)
    /\ files[KeyPath] # InvalidKeyFile
    /\ files' = [ files EXCEPT ![KeyPath] = InvalidKeyFile ]
    /\ UNCHANGED << monitorVars, env, cfg, call, flags, dash, proc >>

(* The key files a run can find: the pair of a previous run, a private key *)
(* file that is no key, and the pair of the older releases in ~/.ssh.      *)
KeyInputs ==
    { f \in [ Paths -> { Absent, InvalidKeyFile, KeyFile(StoredKey), PubFile(StoredKey),
                         KeyFile(OldKey), PubFile(OldKey) } ] :
        /\ \A path \in Paths \ { KeyPath, PublicKeyPath, OldKeyPath, OldPubPath } :
              f[path] = Absent
        /\ f[KeyPath] \in { Absent, InvalidKeyFile, KeyFile(StoredKey) }
        /\ f[PublicKeyPath] \in { Absent, PubFile(StoredKey) }
        /\ f[OldKeyPath] \in { Absent, KeyFile(OldKey) }
        /\ f[OldPubPath] \in { Absent, PubFile(OldKey) } }

InitKey ==
    /\ NewMonitor(SoloConfig, Minute, [h \in Hosts |-> "ok"], 0)
    /\ remote = DefaultDocs
    /\ files \in KeyInputs
    /\ env \in [ writable : BOOLEAN, keygen : BOOLEAN, generated : { 0 } ]
    /\ cfg = NoConfig
    /\ call = NoCall
    /\ flags = DefaultFlags
    /\ dash = NoDashboard
    /\ proc = "idle"

NextKey == GenerateKey \/ CorruptKey

KeySpec == InitKey /\ [][NextKey]_vars

----------------------------------------------------------------------------
(* startWebDashboard and the requests the dashboard serves.                *)

(* "Determine auth settings", NewDashboard and go dash.Start(), after      *)
(* mon.Start().                                                            *)
CreateDashboard ==
    /\ started
    /\ proc = "idle"
    /\ \E randomPass \in RandomPasswords :
          LET a == AuthSettings(flags, randomPass)
          IN  dash' = NewDashboard(a.username, a.password, a.authEnabled)
    /\ proc' = "serving"
    /\ UNCHANGED << monitorVars, files, env, cfg, call, flags >>

(* The server answers request r: noCache(basicAuth(handler)); the API      *)
(* handlers call d.monitor.GetMetrics().                                   *)
Serve(r) ==
    /\ dash.created
    /\ proc \in { "serving", "stopping" }
    /\ LET resp == basicAuth(dash, noCache, r)
       IN  /\ call' = [ op |-> "request", request |-> r, response |-> resp ]
           /\ IF resp.read THEN ReadMetrics ELSE UNCHANGED << snaps, heap >>
    /\ UNCHANGED << config, remote, pollInterval, mode, horizon, now, started, stopped, tickC,
                    nextFire, pollPc, fetches, sessions, aggPc, cleanPc, mu, metrics, lastTick,
                    files, env, cfg, flags, dash, proc >>

(* <-sigChan: the interrupt arrives.                                       *)
Interrupt ==
    /\ proc = "serving"
    /\ proc' = "stopping"
    /\ UNCHANGED << monitorVars, files, env, cfg, call, flags, dash >>

(* mon.Stop() after the signal.                                            *)
StopOnSignal == proc = "stopping" /\ Stop

(* The loops of the monitor return while the command winds up.             *)
ReturnOnStop == proc = "stopping" /\ Return

(* startWebDashboard returns and runs the deferred mon.Stop().             *)
DeferredStop ==
    /\ proc = "stopping"
    /\ stopped
    /\ proc' = IF Close(stopped) = "panic" THEN "panic" ELSE "exited"
    /\ UNCHANGED << monitorVars, files, env, cfg, call, flags, dash >>

(* The web command after config.Load and NewMonitor, with the flags of its *)
(* command line and the settings of its config file.                       *)
InitWeb ==
    /\ NewMonitor(SoloConfig, Minute, [h \in Hosts |-> "ok"], 0)
    /\ remote = DefaultDocs
    /\ files = NoFiles
    /\ env = [ writable |-> TRUE, keygen |-> TRUE, generated |-> 0 ]
    /\ cfg \in { [ loaded |-> TRUE, settings |-> st,
                   servers |-> << [name |-> "A", ip |-> "10.0.0.1"] >> ]
                 : st \in { DefaultSettings, StoredSettings } }
    /\ call = NoCall
    /\ flags \in FlagInputs
    /\ dash = NoDashboard
    /\ proc = "idle"

NextWeb ==
    \/ Start
    \/ CreateDashboard
    \/ \E r \in Requests : Serve(r)
    \/ Interrupt
    \/ StopOnSignal
    \/ ReturnOnStop
    \/ DeferredStop

WebSpec == InitWeb /\ [][NextWeb]_vars

----------------------------------------------------------------------------
(* The Config of a running monitor is changed, and RefreshServers called.  *)

(* RefreshServers, monitor.go:487-490: it writes a line to the log.        *)
RefreshServers ==
    /\ started
    /\ call' = [ op |-> "RefreshServers" ]
    /\ UNCHANGED << monitorVars, files, env, cfg, flags, dash, proc >>

(* AddServer and RemoveServer on the Config the running monitor holds.     *)
AddWhileRunning(server) == started /\ AddServer(server)

RemoveWhileRunning(name) == started /\ RemoveServer(name)

MaxRefreshMinutes == 1

(* A monitor created on a Config of one or of two servers.                 *)
InitRefresh ==
    /\ cfg \in { [ loaded |-> TRUE, settings |-> DefaultSettings, servers |-> sv ]
                 : sv \in { << [name |-> "A", ip |-> "10.0.0.1"] >>,
                            << [name |-> "A", ip |-> "10.0.0.1"],
                               [name |-> "B", ip |-> "10.0.0.2"] >> } }
    /\ NewMonitor({ cfg.servers[i] : i \in 1..Len(cfg.servers) }, Minute,
                  [h \in Hosts |-> "ok"], MaxRefreshMinutes * Minute)
    /\ remote = DefaultDocs
    /\ files = NoFiles
    /\ env = [ writable |-> TRUE, keygen |-> TRUE, generated |-> 0 ]
    /\ call = NoCall
    /\ flags = DefaultFlags
    /\ dash = NoDashboard
    /\ proc = "idle"

NextRefresh ==
    \/ Run
    \/ \E server \in ServerConfigs : AddWhileRunning(server)
    \/ \E name \in Hosts : RemoveWhileRunning(name)
    \/ RefreshServers

RefreshSpec == InitRefresh /\ [][NextRefresh]_vars

----------------------------------------------------------------------------
(* Properties.                                                             *)

(* The names of the store whose current record is online.                  *)
OnlineNames == { n \in DOMAIN metrics.serverMetrics : heap[metrics.serverMetrics[n]].online }

RecordOf(n) == heap[metrics.serverMetrics[n]]

(* The trimmer's tick with its locked body is the step that receives from  *)
(* the trimmer's ticker; the aggregator's append is the step that leaves   *)
(* "written".                                                              *)
TrimStep == tickC[Cleaner] = 1 /\ tickC'[Cleaner] = 0

StampStep == aggPc = "written" /\ aggPc' = "select"

(* C1, as stated: in every reachable state the history holds at most       *)
(* historyLimit entries.                                                   *)
C1_HistoryWithinLimit == Len(metrics.history) <= historyLimit

(* C1, amended: the history holds at most historyLimit entries right after *)
(* every run of the trimmer, and between two runs of the trimmer it grows  *)
(* by at most one entry per step, only by the aggregator's append.         *)
C1_HistoryTrimmedToLimit ==
    [][ /\ TrimStep => Len(metrics'.history) <= historyLimit
        /\ Len(metrics'.history) <= Len(metrics.history) + 1
        /\ Len(metrics'.history) > Len(metrics.history) => StampStep ]_vars

(* The trimmer has dropped the first entry: the history is at its limit    *)
(* and starts after the first aggregator tick.                             *)
C1_Witness ==
    /\ Len(metrics.history) = historyLimit
    /\ metrics.history[1].timestamp > pollInterval

(* C2: when the aggregator has written the totals of a tick, totalRx,      *)
(* totalTx, grandTotalAvg and grandTotalPeak are the sums of rx, tx,       *)
(* avgRx24h+avgTx24h and max(peakRx,peakTx) over exactly the servers whose *)
(* current record is online, and dominantServer names no offline server.   *)
C2_TotalsOverOnlineHosts ==
    aggPc = "written" =>
        /\ metrics.totalRx = SumSet(OnlineNames, [n \in OnlineNames |-> RecordOf(n).rx])
        /\ metrics.totalTx = SumSet(OnlineNames, [n \in OnlineNames |-> RecordOf(n).tx])
        /\ metrics.grandTotalAvg =
              SumSet(OnlineNames,
                     [n \in OnlineNames |-> RecordOf(n).avgRx24h + RecordOf(n).avgTx24h])
        /\ metrics.grandTotalPeak =
              SumSet(OnlineNames,
                     [n \in OnlineNames |-> Max2(RecordOf(n).peakRx, RecordOf(n).peakTx)])
        /\ metrics.dominantServer \in OnlineNames \cup { "" }

(* A tick that summed one online server with traffic in its hour series    *)
(* and one offline server.                                                 *)
C2_Witness ==
    /\ aggPc = "written"
    /\ OnlineNames # {}
    /\ OnlineNames # DOMAIN metrics.serverMetrics
    /\ metrics.grandTotalPeak > 0
    /\ metrics.totalRx > 0

(* C3: when the aggregator has written the totals of a tick with at least  *)
(* one server online, dominantServer names an online server whose          *)
(* avgRx24h+avgTx24h is maximal among the online servers.                  *)
C3_DominantIsMaximalOnline ==
    (aggPc = "written" /\ OnlineNames # {}) =>
        /\ metrics.dominantServer \in OnlineNames
        /\ \A n \in OnlineNames :
              RecordOf(n).avgRx24h + RecordOf(n).avgTx24h <=
                 RecordOf(metrics.dominantServer).avgRx24h +
                 RecordOf(metrics.dominantServer).avgTx24h

(* C5: every record in the store that is online has an empty error, and    *)
(* every record that is offline has zero rates, totals, averages and peaks *)
(* and no peak events.                                                     *)
C5_RecordShape ==
    \A a \in DOMAIN heap :
        /\ heap[a].online => heap[a].error = NoError
        /\ ~heap[a].online =>
              /\ heap[a].rx = 0 /\ heap[a].tx = 0
              /\ heap[a].totalRx = 0 /\ heap[a].totalTx = 0
              /\ heap[a].avgRx12h = 0 /\ heap[a].avgTx12h = 0
              /\ heap[a].avgRx24h = 0 /\ heap[a].avgTx24h = 0
              /\ heap[a].peakRx = 0 /\ heap[a].peakTx = 0
              /\ heap[a].peakEvents = << >>

(* The store holds an offline record with its error set next to an online  *)
(* record with nonzero rates.                                              *)
C5_Witness ==
    \E a, b \in DOMAIN heap :
        /\ ~heap[a].online /\ heap[a].error # NoError
        /\ heap[b].online /\ heap[b].rx > 0 /\ heap[b].peakEvents # << >>

C6_OneFetchPerHost ==
    \A h \in Hosts : Len(fetches[h]) <= 1 /\ tickC[h] \in { 0, 1 }

(* A fetch has overrun two fires of its ticker: one tick is buffered, the  *)
(* other was dropped, and no second fetch has started.                     *)
C6_Witness ==
    \E h \in Hosts :
        /\ Len(fetches[h]) = 1
        /\ tickC[h] = 1
        /\ nextFire[h] > fetches[h][1].rec.updatedAt + 2 * pollInterval

(* Every task Start has spawned has returned.                              *)
AllReturned ==
    /\ \A s \in config : pollPc[s.name] = "returned"
    /\ aggPc = "returned"
    /\ cleanPc = "returned"

(* C7: once Stop has closed the stop channel, every poller, the aggregator *)
(* and the trimmer eventually return.                                      *)
C7_StopReturnsAll == stopped ~> AllReturned

(* What a caller holding a snapshot can observe through it.                *)
SnapshotView(sn) ==
    [ scalars |-> Scalars(sn),
      servers |-> [n \in DOMAIN sn.serverMetrics |-> heap[sn.serverMetrics[n]]],
      history |-> sn.history ]

(* C8: as long as the caller holds the same snapshot, no step of a poller, *)
(* of the aggregator or of the trimmer changes what is observed through    *)
(* it: its scalars, its keys with the records they point to, its history.  *)
C8_SnapshotUnaffected ==
    [][ (snaps # << >> /\ snaps' = snaps) =>
            SnapshotView(snaps[1])' = SnapshotView(snaps[1]) ]_vars

(* A snapshot is held while the store has moved on: the server's record,   *)
(* the scalars and the history of the monitor all differ from it.          *)
C8_Witness ==
    /\ snaps # << >>
    /\ "A" \in DOMAIN snaps[1].serverMetrics
    /\ heap[metrics.serverMetrics["A"]] # heap[snaps[1].serverMetrics["A"]]
    /\ Scalars(metrics) # Scalars(snaps[1])
    /\ Len(metrics.history) > 0
    /\ Len(snaps[1].history) > 0
    /\ metrics.history[1] # snaps[1].history[1]

(* C9: the scalars of every snapshot GetMetrics returns are those written  *)
(* by one aggregator tick, the last one completed before the read.         *)
C9_SnapshotOfOneTick ==
    [][ snaps' # snaps => Scalars(snaps'[1]) = lastTick' ]_vars

(* A snapshot taken after a tick that changed the totals of the tick       *)
(* before it.                                                              *)
C9_Witness ==
    /\ snaps # << >>
    /\ snaps[1].updatedAt >= 2 * pollInterval
    /\ snaps[1].totalRx > 0
    /\ Len(snaps[1].history) >= 2
    /\ snaps[1].history[Len(snaps[1].history) - 1].totalRx # snaps[1].totalRx

(* The timestamps of the history never decrease from one entry to the next.*)
HistoryOrdered ==
    \A i, j \in 1..Len(metrics.history) :
        i <= j => metrics.history[i].timestamp <= metrics.history[j].timestamp

(* C10: the history's timestamps are non-decreasing in every state, and    *)
(* the history changes only by the aggregator appending one entry at the   *)
(* end or by the trimmer dropping entries from the front.                  *)
C10_HistoryAppendOnly ==
    /\ []HistoryOrdered
    /\ [][ metrics'.history # metrics.history =>
              \/ /\ StampStep
                 /\ Len(metrics'.history) = Len(metrics.history) + 1
                 /\ SubSeq(metrics'.history, 1, Len(metrics.history)) = metrics.history
                 /\ metrics'.history[Len(metrics'.history)].timestamp = now
              \/ /\ TrimStep
                 /\ IsSuffix(metrics'.history, metrics.history) ]_vars

(* The history holds entries of three instants after the trimmer dropped   *)
(* an older one.                                                           *)
C10_Witness ==
    /\ Len(metrics.history) >= 2
    /\ metrics.history[1].timestamp > pollInterval
    /\ metrics.history[1].timestamp < metrics.history[Len(metrics.history)].timestamp

(* The calls whose command returned output that does not parse.            *)
UnparsedFetches ==
    { f \in UNION { { fetches[h][i] : i \in 1..Len(fetches[h]) } : h \in Hosts } :
        f.phase = "publish" /\ f.got /\ ~f.jsonData.json }

(* C18, as stated: when the command succeeded and its output does not      *)
(* parse, the record to publish is offline and its error begins with       *)
(* "failed to parse: ".                                                    *)
C18_ParseErrorPrefix ==
    \A f \in UnparsedFetches :
        /\ ~f.rec.online
        /\ f.rec.error # NoError
        /\ f.rec.error[1] = "failed to parse: "

(* C18, amended: when the command succeeded and its output does not parse, *)
(* the record to publish is offline and its error begins with              *)
(* "failed to parse vnStat data: ".                                        *)
C18_ParseErrorPrefixOfCode ==
    \A f \in UnparsedFetches :
        /\ ~f.rec.online
        /\ f.rec.error # NoError
        /\ f.rec.error[1] = "failed to parse vnStat data: "

(* A call is about to publish after its output failed to parse, while the  *)
(* store already holds such a record of an earlier tick.                   *)
C18_Witness ==
    /\ UnparsedFetches # {}
    /\ \E a \in DOMAIN heap : heap[a].error = ErrParse

(* C20: the keys of the store are names of configured servers, every key   *)
(* maps to a record that carries the key as its name, and the store holds  *)
(* one record per server: distinct keys map to distinct records and there  *)
(* are never more records than configured servers.                         *)
C20_KeysAreConfiguredNames ==
    /\ DOMAIN metrics.serverMetrics \subseteq { s.name : s \in config }
    /\ \A n \in DOMAIN metrics.serverMetrics : RecordOf(n).name = n
    /\ \A n, k \in DOMAIN metrics.serverMetrics :
          n # k => metrics.serverMetrics[n] # metrics.serverMetrics[k]
    /\ Cardinality(MapRange(metrics.serverMetrics)) <= Cardinality(config)

(* The only configured server's record has been overwritten by a later     *)
(* poll, and no other key has appeared.                                    *)
C20_Witness ==
    /\ DOMAIN metrics.serverMetrics = { s.name : s \in config }
    /\ config # ServerConfigs
    /\ \E n \in DOMAIN metrics.serverMetrics : RecordOf(n).updatedAt >= 2 * pollInterval

----------------------------------------------------------------------------
(* Properties of the deriver, stated on the calls that are about to        *)
(* publish: the parsed document (vnstat) is the input, the record (rec) is *)
(* the output, and the record's updatedAt is the clock the deriver read.   *)

AllFetches == UNION { { fetches[h][i] : i \in 1..Len(fetches[h]) } : h \in Hosts }

DerivedFetches == { f \in AllFetches : f.phase = "publish" /\ f.got /\ f.jsonData.json }

HasInterface(f) == Len(f.vnstat.interfaces) > 0

HourOf(f) == IF HasInterface(f) THEN f.vnstat.interfaces[1].hour ELSE << >>

FiveMinuteOf(f) == IF HasInterface(f) THEN f.vnstat.interfaces[1].fiveminute ELSE << >>

DayOf(f) == IF HasInterface(f) THEN f.vnstat.interfaces[1].day ELSE << >>

AgeOf(b, f) == f.rec.updatedAt - b.timestamp

Min3(n) == IF n < 3 THEN n ELSE 3

(* The hour buckets the windows hold according to the claim, with its      *)
(* tolerance of one hour for buckets that start in the future.             *)
Claimed24(f) ==
    { k \in 1..Len(HourOf(f)) :
        AgeOf(HourOf(f)[k], f) > 0 - 3600 /\ AgeOf(HourOf(f)[k], f) <= 24 * 3600 }

Claimed12(f) == { k \in Claimed24(f) : AgeOf(HourOf(f)[k], f) <= 12 * 3600 }

(* The hour buckets the code admits.                                       *)
Admitted24(f) ==
    { k \in 1..Len(HourOf(f)) :
        AgeOf(HourOf(f)[k], f) >= 0 /\ AgeOf(HourOf(f)[k], f) <= 24 * 3600 }

Admitted12(f) == { k \in Admitted24(f) : AgeOf(HourOf(f)[k], f) <= 12 * 3600 }

(* Average and peak rate of one direction over a set S of hour buckets.    *)
WindowAverage(f, S, dir) ==
    IF S = {} THEN 0
    ELSE SumSet(S, [k \in S |-> HourOf(f)[k][dir]]) \div (Cardinality(S) * 3600)

WindowPeak(f, S, dir) ==
    IF S = {} THEN 0
    ELSE LET rates == { HourOf(f)[k][dir] \div 3600 : k \in S }
         IN  CHOOSE r \in rates : \A q \in rates : q <= r

(* The averages, the peaks and the peak events of f's record are those of  *)
(* the windows W12 and W24.                                                *)
DerivedFromWindows(f, W12, W24) ==
    /\ f.rec.avgRx12h = WindowAverage(f, W12, "rx")
    /\ f.rec.avgTx12h = WindowAverage(f, W12, "tx")
    /\ f.rec.avgRx24h = WindowAverage(f, W24, "rx")
    /\ f.rec.avgTx24h = WindowAverage(f, W24, "tx")
    /\ f.rec.peakRx = WindowPeak(f, W24, "rx")
    /\ f.rec.peakTx = WindowPeak(f, W24, "tx")
    /\ Len(f.rec.peakEvents) = Min3(Cardinality(W24))
    /\ \A i \in 1..Len(f.rec.peakEvents) :
          \E k \in W24 : f.rec.peakEvents[i].time = HourOf(f)[k].timestamp

(* C12: a bucket of age in (-1h, 12h] counts in the 12h and the 24h        *)
(* windows, one of age in (12h, 24h] in the 24h window only, any other in  *)
(* neither, in no peak and in no peak event: the averages, peaks and peak  *)
(* events of every derived record are those of these windows.              *)
C12_WindowsWithTolerance ==
    \A f \in DerivedFetches : DerivedFromWindows(f, Claimed12(f), Claimed24(f))

(* C13: the live rates of every derived record are the volumes of a        *)
(* five-minute bucket of greatest start divided by 300, rounded down, and  *)
(* zero when there is no five-minute bucket.                               *)
C13_LiveRateOfLatestBucket ==
    \A f \in DerivedFetches :
        LET five == FiveMinuteOf(f)
        IN  IF Len(five) = 0 THEN f.rec.rx = 0 /\ f.rec.tx = 0
            ELSE \E k \in 1..Len(five) :
                    /\ \A j \in 1..Len(five) : five[j].timestamp <= five[k].timestamp
                    /\ f.rec.rx = five[k].rx \div 300
                    /\ f.rec.tx = five[k].tx \div 300

(* Three five-minute buckets with the latest one in the middle of the      *)
(* input: 1500 and 3000 bytes give 5 and 10 bytes per second.              *)
C13_Witness ==
    \E f \in DerivedFetches :
        /\ Len(FiveMinuteOf(f)) = 3
        /\ \A j \in { 1, 3 } :
              FiveMinuteOf(f)[j].timestamp < FiveMinuteOf(f)[2].timestamp
        /\ FiveMinuteOf(f)[2].rx = 1500
        /\ f.rec.rx = 5
        /\ f.rec.tx = 10

(* C14: over the hour buckets the code admits, the averages of every       *)
(* derived record are the window's sum divided by (count * 3600), rounded  *)
(* down, zero for an empty window, and the peaks are the greatest          *)
(* volume / 3600 of the 24h window.                                        *)
C14_AveragesAndPeaks ==
    \A f \in DerivedFetches :
        /\ f.rec.avgRx12h = WindowAverage(f, Admitted12(f), "rx")
        /\ f.rec.avgTx12h = WindowAverage(f, Admitted12(f), "tx")
        /\ f.rec.avgRx24h = WindowAverage(f, Admitted24(f), "rx")
        /\ f.rec.avgTx24h = WindowAverage(f, Admitted24(f), "tx")
        /\ f.rec.peakRx = WindowPeak(f, Admitted24(f), "rx")
        /\ f.rec.peakTx = WindowPeak(f, Admitted24(f), "tx")

(* The 25 hourly buckets of the example: peaks 10 and 20, average 1.       *)
C14_Witness ==
    \E f \in DerivedFetches :
        /\ Len(HourOf(f)) = 25
        /\ Cardinality(Admitted24(f)) = 25
        /\ f.rec.peakRx = 10
        /\ f.rec.peakTx = 20
        /\ f.rec.avgRx24h = 1

(* C15: the peak events of every derived record are min(3, count24)        *)
(* distinct admitted hour buckets, each with its start and its rates       *)
(* rx / 3600 and tx / 3600, in non-increasing order of the combined rate,  *)
(* and no admitted bucket left out has a higher combined rate than one     *)
(* that is included.                                                       *)
C15_PeakEvents ==
    \A f \in DerivedFetches :
        LET hour == HourOf(f)
            events == f.rec.peakEvents
            rate(k) == hour[k].rx \div 3600 + hour[k].tx \div 3600
        IN  /\ Len(events) = Min3(Cardinality(Admitted24(f)))
            /\ \A i, j \in 1..Len(events) :
                  i < j => events[i].rx + events[i].tx >= events[j].rx + events[j].tx
            /\ \E p \in [1..Len(events) -> Admitted24(f)] :
                  /\ \A i, j \in 1..Len(events) : i # j => p[i] # p[j]
                  /\ \A i \in 1..Len(events) :
                        /\ events[i].time = hour[p[i]].timestamp
                        /\ events[i].rx = hour[p[i]].rx \div 3600
                        /\ events[i].tx = hour[p[i]].tx \div 3600
                  /\ \A k \in Admitted24(f) :
                        (\A i \in 1..Len(events) : p[i] # k) =>
                            \A i \in 1..Len(events) : rate(k) <= rate(p[i])

(* Four admitted buckets, three events: the bucket left out has the lower  *)
(* rate and the first event has the higher one.                            *)
C15_Witness ==
    \E f \in DerivedFetches :
        /\ Cardinality(Admitted24(f)) = 4
        /\ Len(f.rec.peakEvents) = 3
        /\ f.rec.peakEvents[1].rx + f.rec.peakEvents[1].tx
              > f.rec.peakEvents[3].rx + f.rec.peakEvents[3].tx
        /\ \E k \in Admitted24(f) :
              HourOf(f)[k].timestamp \notin
                 { f.rec.peakEvents[i].time : i \in 1..3 }

C19_DeriverNeverFails ==
    /\ \A h \in Hosts : \A i \in 1..Len(fetches[h]) :
          (fetches[h][i].phase = "command" /\ mode[h] = "ok") =>
              CollectResults(h, fetches[h][i].rec) # {}
    /\ \A f \in DerivedFetches :
          /\ f.rec.online
          /\ f.rec.error = NoError
          /\ ~HasInterface(f) =>
                /\ \A field \in { "rx", "tx", "totalRx", "totalTx", "avgRx12h", "avgTx12h",
                                  "avgRx24h", "avgTx24h", "peakRx", "peakTx" } :
                      f.rec[field] = 0
                /\ f.rec.peakEvents = << >>

(* A document without interfaces has been derived into an online record.   *)
C19_Witness ==
    \E f \in DerivedFetches : ~HasInterface(f) /\ f.rec.online /\ f.rec.rx = 0

----------------------------------------------------------------------------
(* Properties of the older collector's parser and derivation.              *)

(* The calls of the older collector that parsed their document.            *)
ParsedFetches ==
    { f \in AllFetches : f.phase = "publish" /\ f.got /\ f.jsonData.json /\ f.rec.online }

SeriesNames == { "month", "day", "hour", "minute" }

(* The calendar, by counting the days of the years and months gone by.     *)
LeapYear(year) == (year % 4 = 0 /\ year % 100 # 0) \/ year % 400 = 0

DaysInYear(year) == IF LeapYear(year) THEN 366 ELSE 365

DaysInMonth(year, month) ==
    IF month = 2 THEN (IF LeapYear(year) THEN 29 ELSE 28)
    ELSE IF month \in { 4, 6, 9, 11 } THEN 30 ELSE 31

CivilSeconds(year, month, day, hour, minute) ==
    LET years == 1970..(year - 1)
        months == 1..(month - 1)
        days == SumSet(years, [y \in years |-> DaysInYear(y)])
                  + SumSet(months, [m \in months |-> DaysInMonth(year, m)])
                  + (day - 1)
    IN  days * 86400 + hour * 3600 + minute * 60

(* A field of a legacy id, at the top of the object or in its nested date  *)
(* or time object, or its default.                                         *)
FieldOf(obj, key, nested, default) ==
    IF key \in DOMAIN obj THEN obj[key]
    ELSE IF nested \in DOMAIN obj /\ key \in DOMAIN obj[nested] THEN obj[nested][key]
    ELSE default

(* The UTC instant an id denotes.                                          *)
InstantOf(id) ==
    IF "num" \in DOMAIN id THEN id.num
    ELSE CivilSeconds(FieldOf(id.obj, "year", "date", 1970),
                      FieldOf(id.obj, "month", "date", 1),
                      FieldOf(id.obj, "day", "date", 1),
                      FieldOf(id.obj, "hour", "time", 0),
                      FieldOf(id.obj, "minute", "time", 0))

(* C16: every parsed bucket has the instant its id denotes, whether the id *)
(* is a legacy object (missing fields defaulting to month 1, day 1, hour   *)
(* 0, minute 0) or epoch seconds, and the volumes of its JSON; so two      *)
(* buckets whose ids denote the same instant and whose volumes are equal   *)
(* parse to the same bucket.                                               *)
C16_DialectsAgree ==
    \A f \in ParsedFetches :
        \A i \in 1..Len(f.vnstat.interfaces) : \A name \in SeriesNames :
            LET raw == f.jsonData.doc.interfaces[i][name]
                parsed == f.vnstat.interfaces[i][name]
            IN  /\ Len(parsed) = Len(raw)
                /\ \A k \in 1..Len(raw) :
                      /\ parsed[k].id = InstantOf(raw[k].id)
                      /\ parsed[k].rx = raw[k].rx
                      /\ parsed[k].tx = raw[k].tx
                /\ \A j, k \in 1..Len(raw) :
                      ( /\ InstantOf(raw[j].id) = InstantOf(raw[k].id)
                        /\ raw[j].rx = raw[k].rx
                        /\ raw[j].tx = raw[k].tx ) => parsed[j] = parsed[k]

(* The hour bucket {year 2023, month 10, day 27, hour 14} and the bucket   *)
(* 1698415200 of one document have been parsed to the same bucket, and a   *)
(* month id without a day to the first of the month.                       *)
C16_Witness ==
    \E f \in ParsedFetches :
        /\ HasInterface(f)
        /\ Len(HourOf(f)) = 3
        /\ "obj" \in DOMAIN f.jsonData.doc.interfaces[1].hour[3].id
        /\ "num" \in DOMAIN f.jsonData.doc.interfaces[1].hour[2].id
        /\ HourOf(f)[3] = HourOf(f)[2]
        /\ HourOf(f)[1] = HourOf(f)[2]
        /\ HourOf(f)[3] = [ id |-> 1698415200, rx |-> 1000, tx |-> 2000 ]
        /\ f.vnstat.interfaces[1].month[1].id = 1696118400

(* All the ids of f's document are legacy objects.                         *)
LegacyDialect(f) ==
    \A i \in 1..Len(f.jsonData.doc.interfaces) : \A name \in SeriesNames :
        \A k \in 1..Len(f.jsonData.doc.interfaces[i][name]) :
            "obj" \in DOMAIN f.jsonData.doc.interfaces[i][name][k].id

(* The host-reported time of f's snapshot.                                 *)
SnapshotClock(f) ==
    LET u == f.vnstat.interfaces[1].updated
    IN  CivilSeconds(u.date.year, u.date.month, u.date.day, u.time.hour, u.time.minute)

(* C11: for a snapshot in the legacy dialect the ages are measured from    *)
(* the snapshot's own updated time: the 24h averages are those of the hour *)
(* buckets at most 24h older than it, and the live rate is that of the     *)
(* latest minute bucket when it is less than five minutes older than it,   *)
(* however far the host's clock is from the monitor's.                     *)
C11_AgeFromSnapshotClock ==
    \A f \in ParsedFetches :
        (HasInterface(f) /\ LegacyDialect(f)) =>
            LET ref == SnapshotClock(f)
                hour == HourOf(f)
                minute == f.vnstat.interfaces[1].minute
                W24 == { k \in 1..Len(hour) :
                           ref - hour[k].id >= 0 /\ ref - hour[k].id <= 24 * 3600 }
            IN  /\ f.rec.avgRx24h = WindowAverage(f, W24, "rx")
                /\ f.rec.avgTx24h = WindowAverage(f, W24, "tx")
                /\ \A k \in 1..Len(minute) :
                      ( /\ \A j \in 1..Len(minute) : minute[j].id <= minute[k].id
                        /\ ref - minute[k].id >= 0
                        /\ ref - minute[k].id < 5 * 60 ) =>
                          /\ f.rec.rx = minute[k].rx \div 60
                          /\ f.rec.tx = minute[k].tx \div 60

(* C21: the connections open to a host are exactly those of its calls of   *)
(* collectMetrics that have connected and not yet returned, so that a      *)
(* connection is closed when its call returns on the command error, the    *)
(* parse error and the success path alike, and no host ever has more than  *)
(* one connection open.                                                    *)
C21_SessionsClosedByReturn ==
    \A h \in Hosts :
        /\ sessions[h] = Cardinality({ i \in 1..Len(fetches[h]) : fetches[h][i].session })
        /\ sessions[h] <= 1

(* Calls that connected have returned with a command error and with a      *)
(* parse error, no call is running, and no connection is left open.        *)
C21_Witness ==
    /\ \E a, b \in DOMAIN heap : heap[a].error = ErrCommand /\ heap[b].error = ErrParse
    /\ \A h \in Hosts : sessions[h] = 0 /\ fetches[h] = << >>

(* Claim side of the configuration: a name is taken, names are distinct.   *)
Taken(servers, name) == \E i \in 1..Len(servers) : servers[i].name = name

Distinct(servers) ==
    \A i, j \in 1..Len(servers) : i # j => servers[i].name # servers[j].name

(* C22: from a loaded config with pairwise distinct names, after every     *)
(* sequence of AddServer, UpdateServer and RemoveServer calls no two       *)
(* servers share a name; AddServer with a name that is present, and        *)
(* UpdateServer renaming a server to the name of another one, return an    *)
(* error.                                                                  *)
C22_NamesStayUnique ==
    /\ [](cfg.loaded => Distinct(cfg.servers))
    /\ [][ /\ (call'.op = "AddServer" /\ Taken(cfg.servers, call'.name)) => call'.err
           /\ ( /\ call'.op = "UpdateServer"
                /\ call'.name # call'.newName
                /\ Taken(cfg.servers, call'.name)
                /\ Taken(cfg.servers, call'.newName) ) => call'.err ]_vars

(* AddServer has been refused for a name that is present in a config of    *)
(* three servers.                                                          *)
C22_Witness ==
    /\ call.op = "AddServer" /\ call.err
    /\ cfg.loaded /\ Len(cfg.servers) = 3
    /\ Taken(cfg.servers, call.name)

(* C23: a call of UpdateServer with an oldName that is not present or with *)
(* a new name that another server has, of AddServer with a name that is    *)
(* present, or of RemoveServer with a name that is not present, reports    *)
(* failure and leaves the server list as it was, contents and order.       *)
C23_FailingCallChangesNothing ==
    [][ ( \/ /\ call'.op = "UpdateServer"
             /\ \/ ~Taken(cfg.servers, call'.name)
                \/ call'.name # call'.newName /\ Taken(cfg.servers, call'.newName)
          \/ call'.op = "AddServer" /\ Taken(cfg.servers, call'.name)
          \/ call'.op = "RemoveServer" /\ ~Taken(cfg.servers, call'.name) )
        => call'.err /\ cfg'.servers = cfg.servers ]_vars

(* UpdateServer has been refused for renaming the second of two servers to *)
(* the name of the first.                                                  *)
C23_Witness ==
    /\ call.op = "UpdateServer" /\ call.err
    /\ cfg.loaded /\ Len(cfg.servers) = 2
    /\ cfg.servers[2].name = call.name
    /\ cfg.servers[1].name = call.newName
    /\ call.name # call.newName

(* C24: when Load comes to its check with a legacy servers.json that holds *)
(* a servers array only, no config file at the new path and a config       *)
(* directory it can write, it returns the default settings with exactly    *)
(* the legacy servers, writes that config to the new path and renames the  *)
(* legacy file to servers.json.bak.                                        *)
C24_LegacyMigratedOnLoad ==
    [][ ( /\ call'.op = "Load" /\ ~cfg.loaded
          /\ files[LocalOldConfigPath].exists
          /\ files[LocalOldConfigPath].json
          /\ "settings" \notin DOMAIN files[LocalOldConfigPath]
          /\ ~files[ConfigFilePath].exists
          /\ ~files[LocalConfigPath].exists
          /\ env.writable )
        => /\ ~call'.err
           /\ cfg'.loaded
           /\ cfg'.settings = [ dashboardEnabled |-> TRUE, listenPort |-> 8080,
                                pollInterval |-> 5, authUser |-> "admin",
                                authPass |-> "", authEnabled |-> TRUE ]
           /\ cfg'.servers = files[LocalOldConfigPath].servers
           /\ files'[ConfigFilePath] = [ exists |-> TRUE, json |-> TRUE,
                                         settings |-> cfg'.settings,
                                         servers |-> cfg'.servers ]
           /\ ~files'[LocalOldConfigPath].exists
           /\ files'[BackupPath] = files[LocalOldConfigPath] ]_vars

(* Load has migrated a legacy file: the new path holds the default         *)
(* settings with the servers of the file that is now servers.json.bak.     *)
C24_Witness ==
    /\ call.op = "Load" /\ ~call.err /\ cfg.loaded
    /\ files[BackupPath].exists /\ files[BackupPath].json
    /\ ~files[LocalOldConfigPath].exists
    /\ files[ConfigFilePath].exists /\ files[ConfigFilePath].json
    /\ "settings" \in DOMAIN files[ConfigFilePath]
    /\ files[ConfigFilePath].settings.listenPort = 8080
    /\ files[ConfigFilePath].servers = files[BackupPath].servers
    /\ cfg.servers = files[BackupPath].servers
    /\ Len(cfg.servers) > 0

(* C27, as stated: when a valid private key and its public key are at the  *)
(* key paths, a call of GenerateSSHKey returns exactly that pair and       *)
(* leaves the files as they were.                                          *)
C27_ExistingPairReturned ==
    [][ ( /\ call' # call
          /\ call'.op = "GenerateSSHKey"
          /\ files[KeyPath].exists /\ files[KeyPath].pem
          /\ files[PublicKeyPath].exists
          /\ files[PublicKeyPath].pub = files[KeyPath].key )
        => /\ ~call'.err
           /\ call'.privateKey = files[KeyPath]
           /\ call'.publicKey.pub = files[PublicKeyPath].pub
           /\ files' = files ]_vars

Surface == { "/", "/api/metrics", "/api/servers" }

Refused(d, r) ==
    d.authEnabled /\ (~r.creds.ok \/ r.creds.user # d.username \/ r.creds.pass # d.password)

(* C25: with auth enabled, a request to /, /api/metrics or /api/servers    *)
(* without credentials or with a wrong user or password gets 401, a        *)
(* WWW-Authenticate: Basic header and a JSON error body, no handler runs   *)
(* and no metrics are read; with the right credentials, or with auth       *)
(* disabled, the handler of the route runs.                                *)
C25_UnauthorizedGets401 ==
    [][ (call'.op = "request" /\ call'.request.path \in Surface) =>
          LET r == call'.request
              resp == call'.response
          IN  IF Refused(dash, r)
              THEN /\ resp.status = 401
                   /\ << "WWW-Authenticate", "Basic realm=\"Bandwidth Monitor\"" >>
                         \in resp.headers
                   /\ resp.body.kind = "json" /\ ~resp.body.success
                   /\ resp.handler = "none"
                   /\ ~resp.read
                   /\ snaps' = snaps
              ELSE resp.handler = ( IF r.path = "/" THEN "indexHandler"
                                    ELSE IF r.path = "/api/metrics" THEN "metricsHandler"
                                    ELSE "serversHandler" ) ]_vars

(* A request for the metrics with the right user and a wrong password has  *)
(* been refused.                                                           *)
C25_Witness ==
    /\ call.op = "request"
    /\ call.request.path = "/api/metrics" /\ call.request.method = "GET"
    /\ call.request.creds.ok
    /\ call.request.creds.user = dash.username
    /\ call.request.creds.pass # dash.password
    /\ call.response.status = 401

(* C26, as stated: every authorised request to /, /api/metrics or          *)
(* /api/servers whose method is not GET is answered with 405 and carries   *)
(* no page and no metrics.                                                 *)
C26_NonGetGets405 ==
    ( /\ call.op = "request"
      /\ call.request.path \in Surface
      /\ call.request.method # "GET"
      /\ ~Refused(dash, call.request) )
    => /\ call.response.status = 405
       /\ call.response.body.kind = "json"
       /\ ~call.response.body.success

C30_ShutdownFaultFree == proc # "panic"

(* C31: a tick of a host starts one call, which dials once and, when the   *)
(* dial succeeded, runs the command once; the call ends by publishing one  *)
(* record, and the host's record changes at no other moment.  The record   *)
(* is online exactly when the dial, the command and the parse succeeded; a *)
(* failed dial, command or parse leads straight to the publication of the  *)
(* offline record with the error of that step.                             *)
C31_OneAttemptOneRecord ==
    [][ \A h \in Hosts :
          LET old == fetches[h]
              new == fetches'[h]
              replaced == /\ h \in DOMAIN metrics'.serverMetrics
                          /\ \/ h \notin DOMAIN metrics.serverMetrics
                             \/ metrics'.serverMetrics[h] # metrics.serverMetrics[h]
          IN  /\ (old = << >> /\ new # << >>) =>
                    /\ Len(new) = 1
                    /\ new[1].phase = "connect" /\ ~new[1].session /\ ~new[1].got
              /\ (old # << >> /\ new # << >> /\ new # old) =>
                    /\ Len(old) = 1 /\ Len(new) = 1
                    /\ \/ /\ old[1].phase = "connect" /\ new[1].phase = "command"
                          /\ new[1].session
                       \/ /\ old[1].phase = "connect" /\ new[1].phase = "publish"
                          /\ ~new[1].session
                          /\ ~new[1].rec.online /\ new[1].rec.error = ErrDial
                       \/ /\ old[1].phase = "command" /\ new[1].phase = "publish"
                          /\ new[1].session
                          /\ new[1].rec.online <=> (new[1].got /\ new[1].jsonData.json)
                          /\ ~new[1].got => new[1].rec.error = ErrCommand
                          /\ (new[1].got /\ ~new[1].jsonData.json) =>
                                new[1].rec.error = ErrParse
              /\ (old # << >> /\ new = << >>) =>
                    /\ Len(old) = 1
                    /\ old[1].phase = "publish"
                    /\ replaced
                    /\ heap'[metrics'.serverMetrics[h]] = old[1].rec
              /\ replaced => (old # << >> /\ new = << >>) ]_vars

(* Ticks have ended after a failed dial and after a successful parse: the  *)
(* store holds the offline record with the dial error and an online        *)
(* record, and no call is running.                                         *)
C31_Witness ==
    /\ \E a, b \in DOMAIN heap : heap[a].error = ErrDial /\ heap[b].online
    /\ \A h \in Hosts : fetches[h] = << >>

(* C32: when the record of a host is replaced, the new record is that of a *)
(* tick which started no earlier than the tick of the record it replaces,  *)
(* the entries and records of all the other hosts are the same as before,  *)
(* and the totals, the dominant server, the stamp and the history of the   *)
(* aggregate are unchanged.                                                *)
C32_PublishesOrderedPerHost ==
    [][ \A h \in Hosts :
          ( /\ h \in DOMAIN metrics'.serverMetrics
            /\ \/ h \notin DOMAIN metrics.serverMetrics
               \/ metrics'.serverMetrics[h] # metrics.serverMetrics[h] )
          => /\ h \in DOMAIN metrics.serverMetrics =>
                   heap'[metrics'.serverMetrics[h]].updatedAt
                       >= heap[metrics.serverMetrics[h]].updatedAt
             /\ heap'[metrics'.serverMetrics[h]].name = h
             /\ \A g \in Hosts \ { h } :
                   /\ g \in DOMAIN metrics.serverMetrics <=> g \in DOMAIN metrics'.serverMetrics
                   /\ g \in DOMAIN metrics.serverMetrics =>
                         /\ metrics'.serverMetrics[g] = metrics.serverMetrics[g]
                         /\ heap'[metrics'.serverMetrics[g]] = heap[metrics.serverMetrics[g]]
             /\ metrics'.totalRx = metrics.totalRx
             /\ metrics'.totalTx = metrics.totalTx
             /\ metrics'.grandTotalAvg = metrics.grandTotalAvg
             /\ metrics'.grandTotalPeak = metrics.grandTotalPeak
             /\ metrics'.dominantServer = metrics.dominantServer
             /\ metrics'.updatedAt = metrics.updatedAt
             /\ metrics'.history = metrics.history ]_vars

(* Server A has published the record of its second tick over that of its   *)
(* first while the store kept the record of B's first tick, and the        *)
(* aggregate has a history.                                                *)
C32_Witness ==
    /\ DOMAIN metrics.serverMetrics = Hosts
    /\ heap[metrics.serverMetrics["A"]].updatedAt = 2 * pollInterval
    /\ heap[metrics.serverMetrics["B"]].updatedAt = pollInterval
    /\ metrics.history # << >>

(* C33: a ServerMetrics struct that is in the store or in a snapshot keeps *)
(* all its field values for as long as anything refers to it: a step       *)
(* neither changes a struct nor drops one that the map or a snapshot still *)
(* points to.                                                              *)
C33_PublishedRecordsImmutable ==
    [][ /\ \A a \in (DOMAIN heap) \cap (DOMAIN heap') : heap'[a] = heap[a]
        /\ \A n \in DOMAIN metrics'.serverMetrics :
              metrics'.serverMetrics[n] \in DOMAIN heap'
        /\ \A i \in 1..Len(snaps') : \A n \in DOMAIN snaps'[i].serverMetrics :
              snaps'[i].serverMetrics[n] \in DOMAIN heap' ]_vars

(* A reader holds the record of an earlier tick of server A, online and    *)
(* with its rates, while the store holds the record of a later tick.       *)
C33_Witness ==
    /\ snaps # << >>
    /\ "A" \in DOMAIN snaps[1].serverMetrics
    /\ "A" \in DOMAIN metrics.serverMetrics
    /\ snaps[1].serverMetrics["A"] # metrics.serverMetrics["A"]
    /\ heap[snaps[1].serverMetrics["A"]].updatedAt
           < heap[metrics.serverMetrics["A"]].updatedAt

(* C34: a run of the trimmer that finds more than historyLimit entries     *)
(* leaves exactly the newest historyLimit of them, in their order; a run   *)
(* that finds at most historyLimit entries leaves the history as it is;    *)
(* and the newest entry is there after every run.                          *)
C34_TrimKeepsNewest ==
    [][ TrimStep =>
          LET before == metrics.history
              after == metrics'.history
              dropped == Len(before) - Len(after)
          IN  /\ Len(before) > historyLimit =>
                    /\ Len(after) = historyLimit
                    /\ \A i \in 1..Len(after) : after[i] = before[dropped + i]
              /\ Len(before) <= historyLimit => after = before
              /\ before # << >> =>
                    /\ after # << >>
                    /\ after[Len(after)] = before[Len(before)] ]_vars

(* The trimmer has just received its tick and cut a longer history down to *)
(* the limit: the oldest entry left is that of the aggregator's second     *)
(* tick.                                                                   *)
C34_Witness ==
    /\ tickC[Cleaner] = 0
    /\ now = MaxSoloMinutes * Minute
    /\ Len(metrics.history) = historyLimit
    /\ metrics.history[1].timestamp = 2 * pollInterval
    /\ metrics.history[historyLimit].timestamp = now

(* C35: whenever the aggregator is not inside its locked section and the   *)
(* history is not empty, totalRx and totalTx of the aggregate are those of *)
(* the last history entry; and the same holds in every snapshot GetMetrics *)
(* has returned.                                                           *)
C35_TotalsMatchLastEntry ==
    /\ (mu = "free" /\ metrics.history # << >>) =>
          /\ metrics.totalRx = metrics.history[Len(metrics.history)].totalRx
          /\ metrics.totalTx = metrics.history[Len(metrics.history)].totalTx
    /\ \A i \in 1..Len(snaps) :
          snaps[i].history # << >> =>
              /\ snaps[i].totalRx = snaps[i].history[Len(snaps[i].history)].totalRx
              /\ snaps[i].totalTx = snaps[i].history[Len(snaps[i].history)].totalTx

(* A reader holds a snapshot whose history was trimmed and whose last two  *)
(* entries carry different nonzero totals.                                 *)
C35_Witness ==
    /\ snaps # << >>
    /\ Len(snaps[1].history) = historyLimit
    /\ snaps[1].history[1].timestamp > pollInterval
    /\ snaps[1].totalRx > 0
    /\ snaps[1].history[1].totalRx # snaps[1].history[historyLimit].totalRx
    /\ snaps[1].history[1].totalRx > 0

(* Claim side of the tasks: the hosts that have a poller, and the names of *)
(* a list of servers.                                                      *)
Pollers == { h \in Hosts : pollPc[h] # "idle" }

NamesOf(servers) == { servers[i].name : i \in 1..Len(servers) }

(* C36: before Start no task exists; the step of Start creates one poller  *)
(* for each server the Config holds at that moment, the aggregator and the *)
(* trimmer, which is the number of those servers plus two tasks; and from  *)
(* then on the set of pollers stays the same, whatever is added to or      *)
(* removed from the Config.                                                *)
C36_TasksFixedAtStart ==
    /\ [](~started => (Pollers = { } /\ aggPc = "idle" /\ cleanPc = "idle"))
    /\ [][ (~started /\ started') =>
              /\ Pollers' = NamesOf(cfg.servers)
              /\ aggPc' # "idle" /\ cleanPc' # "idle"
              /\ Cardinality(Pollers') + (IF aggPc' # "idle" THEN 1 ELSE 0)
                    + (IF cleanPc' # "idle" THEN 1 ELSE 0)
                 = Len(cfg.servers) + 2 ]_vars
    /\ [][ started => (Pollers' = Pollers /\ aggPc' # "idle" /\ cleanPc' # "idle") ]_vars

(* The monitor was started on one server, a second server was added to the *)
(* Config afterwards, and the first server has been polled since: one      *)
(* poller, two servers.                                                    *)
C36_Witness ==
    /\ started
    /\ Pollers = { "A" }
    /\ NamesOf(cfg.servers) = { "A", "B" }
    /\ "A" \in DOMAIN metrics.serverMetrics
    /\ metrics.history # << >>

(* C37, as stated: once RefreshServers has been called after the last      *)
(* change of the Config, the hosts that are polled and the keys of the     *)
(* metrics map are those of the servers the Config holds.                  *)
C37_RefreshFollowsConfig ==
    call.op = "RefreshServers" =>
        /\ Pollers = NamesOf(cfg.servers)
        /\ DOMAIN metrics.serverMetrics \subseteq NamesOf(cfg.servers)

(* C38: a Dashboard created with authEnabled true has a password that is   *)
(* not empty, whatever the command line gave (a password, none, -no-auth), *)
(* and while auth is enabled every request whose password is empty, or     *)
(* that carries no credentials, is answered 401 by basicAuth and reaches   *)
(* no handler.                                                             *)
C38_NoEmptyPasswordWithAuth ==
    /\ (dash.created /\ dash.authEnabled) => dash.password # ""
    /\ (dash.created /\ dash.authEnabled /\ call.op = "request"
          /\ (~call.request.creds.ok \/ call.request.creds.pass = ""))
       => (call.response.status = 401 /\ call.response.handler = "none")

(* The command line gave no password and no -no-auth: the Dashboard holds  *)
(* a generated password, and a request with the right user name and an     *)
(* empty password was refused.                                             *)
C38_Witness ==
    /\ ~flags.noAuth
    /\ flags.authPass = ""
    /\ dash.created
    /\ dash.authEnabled
    /\ dash.password \in RandomPasswords
    /\ call.op = "request"
    /\ call.request.creds.ok
    /\ call.request.creds.user = dash.username
    /\ call.request.creds.pass = ""
    /\ call.response.status = 401

(* C39: a Load that finds a config file at the new path leaves there that  *)
(* file, or the config.json it moved from the working directory, never     *)
(* the contents of a legacy servers.json; when a legacy file and a config  *)
(* at the new path both exist, the config is left as it was and is what    *)
(* Load returns, and the legacy file becomes servers.json.bak; and after   *)
(* every Load that succeeded, a migrating one included, another Load       *)
(* returns the same settings and servers and changes no file.              *)
C39_NewConfigNeverOverwritten ==
    call.op = "Load" =>
        /\ Exists(call.before, ConfigFilePath) =>
              files[ConfigFilePath] \in { call.before[ConfigFilePath],
                                          call.before[LocalConfigPath] }
        /\ ( /\ Exists(call.before, ConfigFilePath)
             /\ Exists(call.before, LocalOldConfigPath)
             /\ ~Exists(call.before, LocalConfigPath) ) =>
              /\ files[ConfigFilePath] = call.before[ConfigFilePath]
              /\ files[BackupPath] = call.before[LocalOldConfigPath]
              /\ ~Exists(files, LocalOldConfigPath)
              /\ ~call.err =>
                    /\ call.before[ConfigFilePath].json
                    /\ cfg.servers = call.before[ConfigFilePath].servers
                    /\ cfg.settings =
                          IF "settings" \in DOMAIN call.before[ConfigFilePath]
                          THEN call.before[ConfigFilePath].settings
                          ELSE DefaultSettings
        /\ ~call.err =>
              /\ cfg.loaded
              /\ Load(files, env.writable).err = FALSE
              /\ Load(files, env.writable).config.settings = cfg.settings
              /\ Load(files, env.writable).config.servers = cfg.servers
              /\ Load(files, env.writable).files = files

(* A Load migrated a legacy file, the run ended, and the Load of the next  *)
(* run found the migrated config and servers.json.bak, changed no file and *)
(* returned the default settings with the legacy servers.                  *)
C39_Witness ==
    /\ call.op = "Load" /\ ~call.err
    /\ call.before = files
    /\ Exists(files, BackupPath)
    /\ files[BackupPath].json
    /\ ~Exists(files, LocalOldConfigPath)
    /\ files[ConfigFilePath] = ConfigFile(DefaultSettings, files[BackupPath].servers)
    /\ cfg.loaded
    /\ cfg.settings = DefaultSettings
    /\ cfg.servers = files[BackupPath].servers
    /\ Len(cfg.servers) > 0

====
